---- MODULE Spec2Model ----
(***************************************************************************)
(* A model of the type printer of graphql-typescript-definitions.          *)
(*                                                                         *)
(* Two printers of the repository are modelled side by side:               *)
(*   - printDocument of src/print/document/utilities.ts (full + partial    *)
(*     output, FileContext, OperationContext), and                         *)
(*   - printFile of src/print2/index.ts (definitions prefixed print2_).    *)
(* Spec hands one file to either of them, and calls printDocument again.   *)
(* OperationsSpec hands a file with several operations to the later        *)
(* printDocument of utilities.ts (File.operations), and BuilderSpec runs   *)
(* one pass of the Builder (src/unnamed/part_000) over a project's files.  *)
(*                                                                         *)
(* The other tools of the repository have a specification each:            *)
(*   - StackSpec: the ObjectStack with parent frames (src/unnamed/part_002)*)
(*   - ConfigSpec: resolveSchemaPath and                                   *)
(*     getGraphQLProjectIncludedFilePaths of graphql-tool-utilities,       *)
(*   - FixtureSpec: evaluateFixture of graphql-validate-fixtures,          *)
(*   - FillSpec: the filler of graphql-fixtures, called again and again    *)
(*     with one cache of compiled documents,                               *)
(*   - WatchSpec: the Builder in watch mode, with its cache of documents   *)
(*     and the events it emits.                                            *)
(*                                                                         *)
(* Strings are sequences of one-character strings, so that ucFirst and     *)
(* string concatenation are computed, not assumed.  GraphQL types and the  *)
(* emitted TypeScript types are records tagged by their kind.              *)
(***************************************************************************)
EXTENDS Integers, Sequences, FiniteSets, TLC

VARIABLES
    schema,     \* ast.schema: the possible types of each abstract type
    file,       \* the File handed to the printer: its operation
    options,    \* Options: addTypename
    pc,         \* which printer has run ("init", "printDocument", "printFile",
                \* ...), or where the Builder's pass is
    printed,    \* what the printer returned (with the history of its calls)
    left,       \* the importedTypes of the FileContext each call of
                \* printDocument built and left behind, call by call
    again,      \* what printDocument returned when called once more
    fileMap,    \* Builder: the files of the project, in the order of the map
    index,      \* Builder: the position of the loop over fileMap.values()
    written,    \* Builder: the definition files written (writeFileSync)
    emitted,    \* Builder: the events emitted, in order
    stacks,     \* ObjectStack: the frames constructed so far, by address
    seenSets,   \* ObjectStack: the Sets the frames' seenFields point to
    bodies,     \* ObjectStack: the response names kept by the filter of
                \* unique fields, frame by frame
    stackCall,  \* ObjectStack: the last call made, with what it was given
    args,       \* the arguments of a function of the tools (the project
                \* configuration, the file system, the fixture)
    returned,   \* what the function called last returned, or threw
    documentToOperation,  \* createFiller: the WeakMap of compiled Operations
    contents,   \* watch mode: the contents of the files on disk
    documentMapByProject, \* watch mode: projectName -> {filePath -> document}
    events,     \* watch mode: the events emitted, in order
    handled,    \* watch mode: the number of watcher events handled
    listening,  \* watch mode: whether an 'error' listener is registered
    exited      \* watch mode: whether an exception left a handler uncaught

printerVars == <<schema, file, options, pc, printed, left, again>>
builderVars == <<fileMap, index, written, emitted>>
stackVars   == <<stacks, seenSets, bodies, stackCall>>
\* the variables of the parts of the repository other than the printers and
\* the pass of the Builder
callVars    == <<args, returned>>
fillVars    == <<documentToOperation>>
watchVars   == <<contents, documentMapByProject, events, handled, listening, exited>>
otherVars   == <<stackVars, callVars, fillVars, watchVars>>
notStackVars == <<printerVars, builderVars, callVars, fillVars, watchVars>>
notCallVars  == <<printerVars, builderVars, stackVars, fillVars, watchVars>>
notFillVars  == <<printerVars, builderVars, stackVars, watchVars>>
notWatchVars == <<printerVars, builderVars, stackVars, callVars, fillVars>>
vars == <<schema, file, options, pc, printed, left, again,
          fileMap, index, written, emitted, otherVars>>

(***************************************************************************)
(* Strings                                                                 *)
(***************************************************************************)
LowerCase == <<"a","b","c","d","e","f","g","h","i","j","k","l","m",
               "n","o","p","q","r","s","t","u","v","w","x","y","z">>
UpperCase == <<"A","B","C","D","E","F","G","H","I","J","K","L","M",
               "N","O","P","Q","R","S","T","U","V","W","X","Y","Z">>

toUpperCase(c) ==
    IF \E i \in DOMAIN LowerCase : LowerCase[i] = c
    THEN UpperCase[CHOOSE i \in DOMAIN LowerCase : LowerCase[i] = c]
    ELSE c

\* change-case's ucFirst: the first character upper-cased, the rest kept.
ucFirst(s) == IF s = <<>> THEN s ELSE <<toUpperCase(Head(s))>> \o Tail(s)

RECURSIVE join(_)
join(strings) ==
    IF strings = <<>> THEN <<>> ELSE Head(strings) \o join(Tail(strings))

RECURSIVE mapUcFirst(_)
mapUcFirst(strings) ==
    IF strings = <<>> THEN <<>>
    ELSE <<ucFirst(Head(strings))>> \o mapUcFirst(Tail(strings))

\* a variant without the anchor: the first 'Data' is replaced
replaceFirstData(s) ==
    LET found == {i \in 1..(Len(s) - 3) : SubSeq(s, i, i + 3) = <<"D","a","t","a">>}
        first == CHOOSE i \in found : \A j \in found : i <= j
    IN IF found = {} THEN s
       ELSE SubSeq(s, 1, first - 1)
            \o <<"P","a","r","t","i","a","l","D","a","t","a">>
            \o SubSeq(s, first + 4, Len(s))

\* /Data$/ replaced by 'PartialData'
replaceData(s) ==
    LET n == Len(s) IN
    IF n >= 4 /\ SubSeq(s, n - 3, n) = <<"D","a","t","a">>
    THEN SubSeq(s, 1, n - 4) \o <<"P","a","r","t","i","a","l","D","a","t","a">>
    ELSE s

Range(s) == {s[i] : i \in DOMAIN s}

(***************************************************************************)
(* GraphQL types (graphql-js): named types by kind, and the two wrappers.  *)
(***************************************************************************)
GraphQLScalarType(n)      == [kind |-> "Scalar", name |-> n]
GraphQLEnumType(n)        == [kind |-> "Enum", name |-> n]
GraphQLObjectType(n)      == [kind |-> "Object", name |-> n]
GraphQLInterfaceType(n)   == [kind |-> "Interface", name |-> n]
GraphQLUnionType(n)       == [kind |-> "Union", name |-> n]
GraphQLInputObjectType(n) == [kind |-> "InputObject", name |-> n]
GraphQLNonNull(t)         == [kind |-> "NonNull", ofType |-> t]
GraphQLList(t)            == [kind |-> "List", ofType |-> t]

isNonNullType(t)     == t.kind = "NonNull"
isListType(t)        == t.kind = "List"
isScalarType(t)      == t.kind = "Scalar"
isEnumType(t)        == t.kind = "Enum"
isObjectType(t)      == t.kind = "Object"
isInterfaceType(t)   == t.kind = "Interface"
isUnionType(t)       == t.kind = "Union"
isInputObjectType(t) == t.kind = "InputObject"

GraphQLString  == GraphQLScalarType(<<"S","t","r","i","n","g">>)
GraphQLInt     == GraphQLScalarType(<<"I","n","t">>)
GraphQLFloat   == GraphQLScalarType(<<"F","l","o","a","t">>)
GraphQLBoolean == GraphQLScalarType(<<"B","o","o","l","e","a","n">>)
GraphQLID      == GraphQLScalarType(<<"I","D">>)

(***************************************************************************)
(* TypeScript types (@babel/types nodes)                                   *)
(***************************************************************************)
tsStringKeyword  == [k |-> "keyword", keyword |-> "string"]
tsNumberKeyword  == [k |-> "keyword", keyword |-> "number"]
tsBooleanKeyword == [k |-> "keyword", keyword |-> "boolean"]
tsAnyKeyword     == [k |-> "keyword", keyword |-> "any"]
tsNullKeyword    == [k |-> "keyword", keyword |-> "null"]
tsNeverKeyword   == [k |-> "keyword", keyword |-> "never"]
tsTypeReference(n)       == [k |-> "reference", name |-> n]
tsQualifiedName(ns, n)   == [k |-> "qualified", left |-> ns, name |-> n]
tsLiteralType(s)         == [k |-> "literal", value |-> s]
tsArrayType(t)           == [k |-> "array", elementType |-> t]
tsParenthesizedType(t)   == [k |-> "parenthesized", typeAnnotation |-> t]
tsUnionType(ts)          == [k |-> "union", types |-> ts]
isTSUnionType(t)         == t.k = "union"

tsPropertySignature(n, t, opt) == [key |-> n, typeAnnotation |-> t, optional |-> opt]
tsInterfaceDeclaration(n, b)   == [id |-> n, body |-> b]

\* scalarTypeMap: the five built-in scalars
scalarTypeMapHas(n) ==
    n \in {GraphQLString.name, GraphQLInt.name, GraphQLFloat.name,
           GraphQLBoolean.name, GraphQLID.name}
\* a variant that maps every built-in scalar to string
scalarTypeMapOfStrings(n) == tsStringKeyword
scalarTypeMap(n) ==
    IF n = GraphQLString.name THEN tsStringKeyword
    ELSE IF n = GraphQLInt.name THEN tsNumberKeyword
    ELSE IF n = GraphQLFloat.name THEN tsNumberKeyword
    ELSE IF n = GraphQLBoolean.name THEN tsBooleanKeyword
    ELSE tsStringKeyword

(***************************************************************************)
(* Compiled documents (graphql-tool-utilities/ast)                         *)
(***************************************************************************)
Field(fieldName, responseName, type, isConditional, fields, inlineFragments) ==
    [fieldName |-> fieldName, responseName |-> responseName, type |-> type,
     isConditional |-> isConditional, fields |-> fields,
     inlineFragments |-> inlineFragments]
InlineFragment(typeCondition, possibleTypes, fields) ==
    [typeCondition |-> typeCondition, possibleTypes |-> possibleTypes,
     fields |-> fields]

\* A value that is an array of types (Array.isArray) and the value undefined.
TypeArray(types) == [kind |-> "Array", types |-> types]
Undefined        == [kind |-> "undefined"]
isArray(x)       == x.kind = "Array"
truthy(x)        == x.kind # "undefined"

typenameName == <<"_","_","t","y","p","e","n","a","m","e">>
OtherName     == <<"O","t","h","e","r">>
VariablesName == <<"V","a","r","i","a","b","l","e","s">>
DataName      == <<"D","a","t","a">>
FragmentDataName == <<"F","r","a","g","m","e","n","t","D","a","t","a">>
DocumentNodeName == <<"D","o","c","u","m","e","n","t","N","o","d","e">>

(***************************************************************************)
(* utilities.ts: ObjectStack (the stack the printer of that file defines)  *)
(***************************************************************************)
ObjectStack(type, parentFields) ==
    [parentFields |-> parentFields, seenFields |-> {}]

stackName(stack) ==
    join(mapUcFirst([i \in DOMAIN stack.parentFields |->
                        stack.parentFields[i].responseName]))

nested(stack, field, type) == ObjectStack(type, Append(stack.parentFields, field))
fragment(stack, type)      == ObjectStack(type, stack.parentFields)
sawField(stack, field) ==
    [stack EXCEPT !.seenFields = @ \cup {field.responseName}]
hasSeenField(stack, field) == field.responseName \in stack.seenFields

(***************************************************************************)
(* utilities.ts: FileContext and OperationContext.  A context value holds  *)
(* the OperationContext's fields, the importedTypes of the FileContext it  *)
(* points to, and `history`: a record of the printer's calls, kept only to *)
(* state properties about them.                                            *)
(***************************************************************************)
isOperation(operation) == operation.kind = "Operation"

OperationContext(operation, ast, opts, importedTypes) ==
    [operation |-> operation, ast |-> ast, options |-> opts,
     exportedTypes |-> <<>>, importedTypes |-> importedTypes,
     thrown |-> "", history |-> <<>>]

typeName(context) ==
    LET name == IF isOperation(context.operation)
                THEN ucFirst(context.operation.operationName)
                     \o ucFirst(context.operation.operationType) \o DataName
                ELSE ucFirst(context.operation.fragmentName) \o FragmentDataName
    IN IF context.options.partial THEN replaceData(name) ELSE name

\* a variant that keeps a list of the imports, not a Set
importAgain(context, type) ==
    [context EXCEPT !.importedTypes = Append(@, type)]

\* FileContext.import: importedTypes is a Set, iterated in insertion order
import(context, type) ==
    IF type \in Range(context.importedTypes) THEN context
    ELSE [context EXCEPT !.importedTypes = Append(@, type)]

\* OperationContext.export: the reference returned is
\* tsTypeReference(tsQualifiedName(typeName, type.id))
exportReference(context, type) == tsQualifiedName(typeName(context), type.id)
export(context, type) == [context EXCEPT !.exportedTypes = Append(@, type)]

record(context, entry) == [context EXCEPT !.history = Append(@, entry)]

\* fields.filter without the hasSeenField test: every field is kept (the
\* filter C4 rests on, left out)
keepAllFields(fields, stack) ==
    [fields |-> fields,
     stack |-> [stack EXCEPT !.seenFields =
                   @ \cup {fields[i].responseName : i \in DOMAIN fields}]]

RECURSIVE filterUniqueFields(_, _)
filterUniqueFields(fields, stack) ==
    IF fields = <<>> THEN [fields |-> <<>>, stack |-> stack]
    ELSE IF hasSeenField(stack, Head(fields))
    THEN filterUniqueFields(Tail(fields), stack)
    ELSE LET rest == filterUniqueFields(Tail(fields), sawField(stack, Head(fields)))
         IN [fields |-> <<Head(fields)>> \o rest.fields, stack |-> rest.stack]

tsTypenameForGraphQLType(type) == tsLiteralType(type.name)

typenameField ==
    Field(typenameName, typenameName, GraphQLNonNull(GraphQLString), FALSE,
          <<>>, <<>>)

\* the types an array of inline fragments covers, and the possible types of
\* the schema none of them covers
typesCoveredByInlineFragments(inlineFragments) ==
    UNION {Range(inlineFragments[i].possibleTypes) : i \in DOMAIN inlineFragments}

getPossibleTypes(ast, graphQLType) == ast.schema.possibleTypes[graphQLType.name]

\* getPossibleTypes without the filter on the covered types (the filter C1
\* rests on, left out)
missingPossibleTypesUnfiltered(inlineFragments, graphQLType, ast) ==
    IF isInterfaceType(graphQLType) \/ isUnionType(graphQLType)
    THEN getPossibleTypes(ast, graphQLType)
    ELSE <<>>

missingPossibleTypes(inlineFragments, graphQLType, ast) ==
    IF isInterfaceType(graphQLType) \/ isUnionType(graphQLType)
    THEN SelectSeq(getPossibleTypes(ast, graphQLType),
                   LAMBDA possibleType :
                      possibleType \notin typesCoveredByInlineFragments(inlineFragments))
    ELSE <<>>

(***************************************************************************)
(* utilities.ts: the printer of printDocument.  Every function returns its *)
(* result together with the context as the call left it (exportedTypes,    *)
(* importedTypes and the history).  Each function is written as one call   *)
(* of the function it calls, handed to a definition (named ...Returns)     *)
(* that builds the function's return value from what that call returned.   *)
(***************************************************************************)
RECURSIVE tsInterfaceBodyForObjectField(_, _, _, _, _)
RECURSIVE mapTsPropertyForField(_, _, _, _, _)
RECURSIVE mapTsPropertyForFieldRest(_, _, _, _, _)
RECURSIVE tsTypeForInlineFragment(_, _, _, _, _)
RECURSIVE mapTsTypeForInlineFragment(_, _, _, _)
RECURSIVE mapTsTypeForInlineFragmentRest(_, _, _, _)
RECURSIVE tsTypeForObjectField(_, _, _, _)
RECURSIVE tsTypeForObjectFieldOther(_, _, _, _, _)
RECURSIVE tsPropertyForField(_, _, _, _, _)
RECURSIVE tsTypeForGraphQLType(_, _, _, _)

\* the condition without its hasSeenField test (the test C8 rests on)
addsTypenameThoughSeen(details, stack, context, requiresTypename) ==
    context.options.addTypename \/ requiresTypename

\* the condition without requiresTypename (the argument C9 turns on)
addsTypenameByOptionOnly(details, stack, context, requiresTypename) ==
    /\ context.options.addTypename
    /\ ~hasSeenField(filterUniqueFields(details.fields, stack).stack, typenameField)

\* const typename = (addTypename || requiresTypename) && !stack.hasSeenField(...)
addsTypename(details, stack, context, requiresTypename) ==
    /\ (context.options.addTypename \/ requiresTypename)
    /\ ~hasSeenField(filterUniqueFields(details.fields, stack).stack, typenameField)

\* [typename, ...body] is the map of tsPropertyForField over these fields:
\* the typename field when one is added, then the unique fields
printedFields(details, stack, context, requiresTypename) ==
    IF addsTypename(details, stack, context, requiresTypename)
    THEN <<typenameField>> \o filterUniqueFields(details.fields, stack).fields
    ELSE filterUniqueFields(details.fields, stack).fields

tsInterfaceBodyReturns(details, graphQLType, stack, context, requiresTypename, body) ==
    [body |-> body.properties,
     context |-> record(body.context,
                   [call |-> "tsInterfaceBodyForObjectField",
                    fields |-> details.fields, graphQLType |-> graphQLType,
                    stackName |-> stackName(stack),
                    requiresTypename |-> requiresTypename,
                    partial |-> context.options.partial,
                    addedTypename |-> addsTypename(details, stack, context,
                                                   requiresTypename),
                    body |-> body.properties])]

tsInterfaceBodyForObjectField(details, graphQLType, stack, context, requiresTypename) ==
    tsInterfaceBodyReturns(details, graphQLType, stack, context, requiresTypename,
        mapTsPropertyForField(
            printedFields(details, stack, context, requiresTypename),
            graphQLType, filterUniqueFields(details.fields, stack).stack,
            context, requiresTypename))

\* fields.map((field) => tsPropertyForField(field, ...))
mapTsPropertyForField(fields, graphQLType, stack, context, requiresTypename) ==
    IF fields = <<>> THEN [properties |-> <<>>, context |-> context]
    ELSE mapTsPropertyForFieldRest(
             fields, graphQLType, stack, requiresTypename,
             tsPropertyForField(Head(fields), graphQLType, stack, context,
                                requiresTypename))

consProperty(first, rest) ==
    [properties |-> <<first.property>> \o rest.properties, context |-> rest.context]

mapTsPropertyForFieldRest(fields, graphQLType, stack, requiresTypename, first) ==
    consProperty(first,
        mapTsPropertyForField(Tail(fields), graphQLType, stack, first.context,
                              requiresTypename))

tsTypeForInlineFragmentReturns(inlineFragment, stack, body) ==
    LET interfaceDeclaration ==
            tsInterfaceDeclaration(
                stackName(stack) \o inlineFragment.typeCondition.name, body.body)
    IN [type |-> exportReference(body.context, interfaceDeclaration),
        context |-> export(body.context, interfaceDeclaration)]

tsTypeForInlineFragment(inlineFragment, graphQLType, stack, context, requiresTypename) ==
    tsTypeForInlineFragmentReturns(inlineFragment, stack,
        tsInterfaceBodyForObjectField(inlineFragment, inlineFragment.typeCondition,
                                      stack, context, requiresTypename))

\* inlineFragments.map((inlineFragment) => tsTypeForInlineFragment(...,
\*   stack.fragment(inlineFragment.typeCondition), context, options.partial))
mapTsTypeForInlineFragment(inlineFragments, graphQLType, stack, context) ==
    IF inlineFragments = <<>> THEN [types |-> <<>>, context |-> context]
    ELSE mapTsTypeForInlineFragmentRest(
             inlineFragments, graphQLType, stack,
             tsTypeForInlineFragment(
                 Head(inlineFragments), graphQLType,
                 fragment(stack, Head(inlineFragments).typeCondition),
                 context, context.options.partial))

consType(first, rest) ==
    [types |-> <<first.type>> \o rest.types, context |-> rest.context]

mapTsTypeForInlineFragmentRest(inlineFragments, graphQLType, stack, first) ==
    consType(first,
        mapTsTypeForInlineFragment(Tail(inlineFragments), graphQLType, stack,
                                   first.context))

tsTypeForObjectFieldRecord(field, graphQLType, stack, context, type) ==
    [call |-> "tsTypeForObjectField", field |-> field,
     graphQLType |-> graphQLType, stackName |-> stackName(stack),
     partial |-> context.options.partial, type |-> type]

\* the field has inline fragments: fragmentTypes are theirs, otherBody the body
\* of the Other interface (used when some possible type is missing)
tsTypeForObjectFieldUnion(field, graphQLType, stack, context, fragmentTypes, otherBody) ==
    LET missing   == missingPossibleTypes(field.inlineFragments, graphQLType,
                                          context.ast)
        otherTypeInterface ==
            tsInterfaceDeclaration(stackName(stack) \o OtherName, otherBody.body)
        hasOther  == Len(missing) > 0
        after     == IF hasOther
                     THEN export(otherBody.context, otherTypeInterface)
                     ELSE fragmentTypes.context
        type      == tsUnionType(
                         IF hasOther
                         THEN Append(fragmentTypes.types,
                                     exportReference(after, otherTypeInterface))
                         ELSE fragmentTypes.types)
    IN [type |-> type,
        context |-> record(after, tsTypeForObjectFieldRecord(
                                      field, graphQLType, stack, context, type))]

\* a variant whose Other interface is printed from the fields of the first
\* inline fragment
tsTypeForObjectFieldOtherOfFragment(field, graphQLType, stack, context, fragmentTypes) ==
    tsTypeForObjectFieldUnion(field, graphQLType, stack, context, fragmentTypes,
        tsInterfaceBodyForObjectField(
            field.inlineFragments[1],
            TypeArray(missingPossibleTypes(field.inlineFragments, graphQLType,
                                           context.ast)),
            stack, fragmentTypes.context, context.options.partial))

tsTypeForObjectFieldOther(field, graphQLType, stack, context, fragmentTypes) ==
    tsTypeForObjectFieldUnion(field, graphQLType, stack, context, fragmentTypes,
        tsInterfaceBodyForObjectField(
            field,
            TypeArray(missingPossibleTypes(field.inlineFragments, graphQLType,
                                           context.ast)),
            stack, fragmentTypes.context, context.options.partial))

\* the field has no inline fragments
tsTypeForObjectFieldReturns(field, graphQLType, stack, context, body) ==
    LET interfaceDeclaration == tsInterfaceDeclaration(stackName(stack), body.body)
        type == exportReference(body.context, interfaceDeclaration)
    IN [type |-> type,
        context |-> record(export(body.context, interfaceDeclaration),
                           tsTypeForObjectFieldRecord(field, graphQLType, stack,
                                                      context, type))]

tsTypeForObjectField(field, graphQLType, stack, context) ==
    IF Len(field.inlineFragments) > 0
    THEN tsTypeForObjectFieldOther(field, graphQLType, stack, context,
             mapTsTypeForInlineFragment(field.inlineFragments, graphQLType, stack,
                                        context))
    ELSE tsTypeForObjectFieldReturns(field, graphQLType, stack, context,
             tsInterfaceBodyForObjectField(field, graphQLType, stack, context,
                                           FALSE))

tsPropertyForFieldRecord(field, parentType, stack, context, isRequiredTypename, property) ==
    [call |-> "tsPropertyForField", field |-> field, parentType |-> parentType,
     stackName |-> stackName(stack), isRequiredTypename |-> isRequiredTypename,
     partial |-> context.options.partial, property |-> property]

\* if (field.fieldName === '__typename' && parentType) { ... }
tsPropertyForTypename(field, parentType, stack, context, isRequiredTypename) ==
    LET optional ==
            /\ ~isRequiredTypename
            /\ \/ context.options.partial
               \/ field.isConditional
               \/ ~isNonNullType(field.type)
        typename ==
            IF isArray(parentType)
            THEN tsUnionType([i \in DOMAIN parentType.types |->
                                tsTypenameForGraphQLType(parentType.types[i])])
            ELSE tsTypenameForGraphQLType(parentType)
        typenameProperty ==
            tsPropertySignature(
                field.responseName,
                IF optional THEN tsUnionType(<<typename, tsNullKeyword>>)
                ELSE typename,
                optional)
    IN [property |-> typenameProperty,
        context |-> record(context,
                      tsPropertyForFieldRecord(field, parentType, stack, context,
                                               isRequiredTypename,
                                               typenameProperty))]

\* the condition without options.partial (the disjunct C10 rests on)
propertyOptionalInFull(field, context) ==
    field.isConditional \/ ~isNonNullType(field.type)

\* property.optional = partial || field.isConditional || !isNonNullType(field.type)
propertyOptional(field, context) ==
    \/ context.options.partial
    \/ field.isConditional
    \/ ~isNonNullType(field.type)

tsPropertyForFieldReturns(field, parentType, stack, context, isRequiredTypename, type) ==
    LET property == tsPropertySignature(field.responseName, type.type,
                                        propertyOptional(field, context))
    IN [property |-> property,
        context |-> record(type.context,
                      tsPropertyForFieldRecord(field, parentType, stack, context,
                                               isRequiredTypename, property))]

tsPropertyForField(field, parentType, stack, context, isRequiredTypename) ==
    IF field.fieldName = typenameName /\ truthy(parentType)
    THEN tsPropertyForTypename(field, parentType, stack, context,
                               isRequiredTypename)
    ELSE tsPropertyForFieldReturns(field, parentType, stack, context,
             isRequiredTypename,
             tsTypeForGraphQLType(field.type, field, stack, context))

\* the condition without graphQLType === field.type (the test C3 rests on)
forceNullableAtEveryLevel(graphQLType, field, context) ==
    context.options.partial \/ field.isConditional

\* const forceNullable = partial || (field.isConditional && graphQLType === field.type)
forceNullable(graphQLType, field, context) ==
    \/ context.options.partial
    \/ (field.isConditional /\ graphQLType = field.type)

unwrap(graphQLType) ==
    IF isNonNullType(graphQLType) THEN graphQLType.ofType ELSE graphQLType

\* return isNonNull ? type : t.tsUnionType([type, t.tsNullKeyword()])
tsTypeForGraphQLTypeReturns(graphQLType, field, context, result) ==
    [type |-> IF ~forceNullable(graphQLType, field, context)
                 /\ isNonNullType(graphQLType)
              THEN result.type
              ELSE tsUnionType(<<result.type, tsNullKeyword>>),
     context |-> result.context]

\* a scalar or an enum: a built-in scalar by scalarTypeMap, any other by name,
\* imported from the schema types
tsTypeForLeafType(unwrappedGraphQLType, context) ==
    IF isScalarType(unwrappedGraphQLType)
       /\ scalarTypeMapHas(unwrappedGraphQLType.name)
    THEN [type |-> scalarTypeMap(unwrappedGraphQLType.name), context |-> context]
    ELSE [type |-> tsTypeReference(unwrappedGraphQLType.name),
          context |-> import(context, unwrappedGraphQLType.name)]

\* a variant that never parenthesizes the element type
tsArrayTypeOfBare(arrayType) ==
    [type |-> tsArrayType(arrayType.type), context |-> arrayType.context]

tsArrayTypeOf(arrayType) ==
    [type |-> tsArrayType(IF isTSUnionType(arrayType.type)
                          THEN tsParenthesizedType(arrayType.type)
                          ELSE arrayType.type),
     context |-> arrayType.context]

tsTypeForGraphQLType(graphQLType, field, stack, context) ==
    tsTypeForGraphQLTypeReturns(graphQLType, field, context,
        IF isScalarType(unwrap(graphQLType)) \/ isEnumType(unwrap(graphQLType))
        THEN tsTypeForLeafType(unwrap(graphQLType), context)
        ELSE IF isListType(unwrap(graphQLType))
        THEN tsArrayTypeOf(
                 tsTypeForGraphQLType(unwrap(graphQLType).ofType, field, stack,
                                      context))
        ELSE IF \/ isObjectType(unwrap(graphQLType))
                \/ isInterfaceType(unwrap(graphQLType))
                \/ isUnionType(unwrap(graphQLType))
        THEN tsTypeForObjectField(field, unwrap(graphQLType),
                                  nested(stack, field, unwrap(graphQLType)),
                                  context)
        ELSE [type |-> tsAnyKeyword, context |-> context])

(***************************************************************************)
(* utilities.ts: the Variables interface                                   *)
(***************************************************************************)
isTypedVariable(variable) == truthy(variable.type)

RECURSIVE tsTypeForGraphQLInputType(_, _)
tsTypeForGraphQLInputType(graphQLType, context) ==
    LET unwrappedGraphQLType ==
            IF isNonNullType(graphQLType) THEN graphQLType.ofType ELSE graphQLType
        result ==
            IF isScalarType(unwrappedGraphQLType)
            THEN IF scalarTypeMapHas(unwrappedGraphQLType.name)
                 THEN [type |-> scalarTypeMap(unwrappedGraphQLType.name),
                       context |-> context]
                 ELSE [type |-> tsTypeReference(unwrappedGraphQLType.name),
                       context |-> import(context, unwrappedGraphQLType.name)]
            ELSE IF \/ isEnumType(unwrappedGraphQLType)
                    \/ isInputObjectType(unwrappedGraphQLType)
            THEN [type |-> tsTypeReference(unwrappedGraphQLType.name),
                  context |-> import(context, unwrappedGraphQLType.name)]
            ELSE \* const {ofType} = unwrappedGraphQLType: a list type has one
                 IF isListType(unwrappedGraphQLType)
                 THEN LET ofType    == unwrappedGraphQLType.ofType
                          arrayType == tsTypeForGraphQLInputType(ofType, context)
                      IN [type |-> tsArrayType(
                                      IF isNonNullType(ofType) THEN arrayType.type
                                      ELSE tsParenthesizedType(arrayType.type)),
                          context |-> arrayType.context]
                 ELSE \* any other kind has no ofType: the recursive call
                      \* destructures undefined, a TypeError
                      [type |-> tsAnyKeyword,
                       context |-> [context EXCEPT !.thrown = "TypeError"]]
    IN [type |-> IF isNonNullType(graphQLType) THEN result.type
                 ELSE tsUnionType(<<result.type, tsNullKeyword>>),
        context |-> result.context]

\* a variant whose properties are never optional
tsPropertyForVariableRequired(variable, context) ==
    [property |-> tsPropertySignature(
                      variable.name,
                      tsTypeForGraphQLInputType(variable.type, context).type,
                      FALSE),
     context |-> context]

tsPropertyForVariable(variable, context) ==
    LET type == tsTypeForGraphQLInputType(variable.type, context)
    IN [property |-> tsPropertySignature(variable.name, type.type,
                                         ~isNonNullType(variable.type)),
        context |-> type.context]

RECURSIVE mapTsPropertyForVariable(_, _)
mapTsPropertyForVariable(variables, context) ==
    IF variables = <<>> THEN [properties |-> <<>>, context |-> context]
    ELSE LET first == tsPropertyForVariable(Head(variables), context)
             rest  == mapTsPropertyForVariable(Tail(variables), first.context)
         IN [properties |-> <<first.property>> \o rest.properties,
             context |-> rest.context]

variablesInterface(variables, context) ==
    LET body == mapTsPropertyForVariable(SelectSeq(variables, isTypedVariable),
                                         context)
    IN [declaration |-> tsInterfaceDeclaration(VariablesName, body.properties),
        context |-> body.context]

(***************************************************************************)
(* utilities.ts: printDocument.  The generated code is the sequence of its *)
(* statements; the module specifier of the schema import (a relative path  *)
(* computed by the path library) is left out.                              *)
(***************************************************************************)
importDeclaration(names, from)  == [statement |-> "import", names |-> names,
                                    from |-> from]
exportNamespace(id, interfaces) == [statement |-> "export namespace", id |-> id,
                                    body |-> interfaces]
exportInterface(declaration)    == [statement |-> "export interface",
                                    id |-> declaration.id,
                                    body |-> declaration.body]
declareDocument(typeParameters) == [statement |-> "declare const document",
                                    typeParameters |-> typeParameters]
exportDefaultDocument           == [statement |-> "export default document"]

\* a FileContext that starts from the imports the call before collected
FileContextOfEarlierCall ==
    [importedTypes |-> IF left = <<>> THEN <<>> ELSE left[Len(left)]]

\* new FileContext(path, options): private importedTypes = new Set<string>()
FileContext == [importedTypes |-> <<>>]

\* FileContext.schemaImports
schemaImports(importedTypes) ==
    IF Len(importedTypes) > 0
    THEN <<importDeclaration(importedTypes, "schemaTypesPath")>>
    ELSE <<>>

\* OperationContext.namespace
namespace(context) ==
    IF Len(context.exportedTypes) > 0
    THEN <<exportNamespace(typeName(context), context.exportedTypes)>>
    ELSE <<>>

OperationTypeQuery        == <<"q","u","e","r","y">>
OperationTypeMutation     == <<"m","u","t","a","t","i","o","n">>
OperationTypeSubscription == <<"s","u","b","s","c","r","i","p","t","i","o","n">>

getRootType(operation, ast) ==
    IF operation.operationType = OperationTypeQuery THEN ast.schema.queryType
    ELSE IF operation.operationType = OperationTypeMutation
    THEN ast.schema.mutationType
    ELSE ast.schema.subscriptionType

\* fragments.reduce(...): one context per fragment, all on the same FileContext
RECURSIVE printFragments(_, _, _, _)
RECURSIVE printFragmentsRest(_, _, _, _)

fragmentStatements(context, body, rest) ==
    [statements |->
         namespace(body.context)
         \o <<exportInterface(
                tsInterfaceDeclaration(typeName(context), body.body))>>
         \o rest.statements,
     importedTypes |-> rest.importedTypes,
     history |-> body.context.history \o rest.history]

printFragmentsRest(fragments, ast, opts, body) ==
    fragmentStatements(body.context, body,
        printFragments(Tail(fragments), ast, opts, body.context.importedTypes))

printFragments(fragments, ast, opts, importedTypes) ==
    IF fragments = <<>>
    THEN [statements |-> <<>>, importedTypes |-> importedTypes, history |-> <<>>]
    ELSE printFragmentsRest(fragments, ast, opts,
             tsInterfaceBodyForObjectField(
                 Head(fragments), Head(fragments).typeCondition,
                 ObjectStack(Head(fragments).typeCondition, <<>>),
                 OperationContext(Head(fragments), ast, opts, importedTypes),
                 FALSE))

\* if (operation == null) { ... }
printDocumentFragments(fileBody) ==
    [code |-> schemaImports(fileBody.importedTypes) \o fileBody.statements,
     thrown |-> "",
     history |-> fileBody.history]

fullOptions(opts)    == [addTypename |-> opts.addTypename, partial |-> FALSE]
partialOptions(opts) == [addTypename |-> opts.addTypename, partial |-> TRUE]

hasVariables(operation) ==
    Len(SelectSeq(operation.variables, isTypedVariable)) > 0

\* the context once the Variables interface is exported (when there is one)
afterVariables(operation, variables) ==
    IF hasVariables(operation)
    THEN export(variables.context, variables.declaration)
    ELSE variables.context

variablesType(operation, variables) ==
    IF hasVariables(operation)
    THEN exportReference(afterVariables(operation, variables),
                         variables.declaration)
    ELSE tsNeverKeyword

\* the statements of the file of an operation, from the Variables interface,
\* the operation's interface body and its partial counterpart
printDocumentReturns(operation, variables, full, partial) ==
    [code |->
         <<importDeclaration(<<DocumentNodeName>>, "graphql-typed")>>
         \o schemaImports(partial.context.importedTypes)
         \o namespace(partial.context)
         \o <<exportInterface(
                tsInterfaceDeclaration(typeName(partial.context), partial.body))>>
         \o namespace(full.context)
         \o <<exportInterface(
                tsInterfaceDeclaration(typeName(full.context), full.body)),
              declareDocument(<<tsTypeReference(typeName(full.context)),
                                variablesType(operation, variables),
                                tsTypeReference(typeName(partial.context))>>),
              exportDefaultDocument>>,
     thrown |-> "",
     history |-> full.context.history \o partial.context.history]

printDocumentPartial(operation, ast, opts, variables, full) ==
    printDocumentReturns(operation, variables, full,
        tsInterfaceBodyForObjectField(
            operation, getRootType(operation, ast),
            ObjectStack(getRootType(operation, ast), <<>>),
            OperationContext(operation, ast, partialOptions(opts),
                             full.context.importedTypes),
            FALSE))

printDocumentOperation(operation, ast, opts, variables) ==
    IF variables.context.thrown # ""
    THEN [code |-> <<>>, thrown |-> variables.context.thrown, history |-> <<>>]
    ELSE printDocumentPartial(operation, ast, opts, variables,
             tsInterfaceBodyForObjectField(
                 operation, getRootType(operation, ast),
                 ObjectStack(getRootType(operation, ast), <<>>),
                 afterVariables(operation, variables), FALSE))

printDocument(f, ast, opts) ==
    IF ~truthy(f.operation)
    THEN printDocumentFragments(
             printFragments(f.fragments, ast, fullOptions(opts),
                            FileContext.importedTypes))
    ELSE printDocumentOperation(f.operation, ast, opts,
             variablesInterface(f.operation.variables,
                 OperationContext(f.operation, ast, fullOptions(opts),
                                  FileContext.importedTypes)))

(***************************************************************************)
(* utilities.ts: the printDocument of files with any number of operations  *)
(* (File.operations).  It prints the interfaces with the functions above.  *)
(***************************************************************************)
documentName         == <<"d","o","c","u","m","e","n","t">>
BaseDocumentNodeName == <<"B","a","s","e","D","o","c","u","m","e","n","t","N","o","d","e">>

exportDeclareConst(id, typeParameters) ==
    [statement |-> "export declare const", id |-> id,
     typeParameters |-> typeParameters]
declareConst(id, type) == [statement |-> "declare const", id |-> id, type |-> type]
exportDefault(id)      == [statement |-> "export default", id |-> id]

\* a variant that makes the document of every operation the default export
defaultExportOfEveryOperation(operation, count) ==
    <<exportDefault(operation.operationName)>>

\* if (operations.length === 1) { fileBody.push(t.exportDefaultDeclaration(...)) }
defaultExportOfOperation(operation, count) ==
    IF count = 1 THEN <<exportDefault(operation.operationName)>> ELSE <<>>

\* if (operations.length > 1) { ... }
baseDocumentNodeImport(count) ==
    IF count > 1
    THEN <<importDeclaration(<<BaseDocumentNodeName>>, "graphql")>>
    ELSE <<>>
baseDocumentNode(count) ==
    IF count > 1
    THEN <<declareConst(documentName, tsTypeReference(BaseDocumentNodeName)),
           exportDefault(documentName)>>
    ELSE <<>>

\* if (operations.length > 0) { fileBody.push(documentNodeImport) }
documentNodeImport(count) ==
    IF count > 0
    THEN <<importDeclaration(<<DocumentNodeName>>, "graphql-typed")>>
    ELSE <<>>

\* for (const operation of operations) { ... }: count is operations.length of
\* the file
RECURSIVE printOperations(_, _, _, _, _)

operationStatements(operation, count, variables, full, partial, rest) ==
    [statements |->
         namespace(partial.context)
         \o <<exportInterface(
                tsInterfaceDeclaration(typeName(partial.context), partial.body))>>
         \o namespace(full.context)
         \o <<exportInterface(
                tsInterfaceDeclaration(typeName(full.context), full.body)),
              exportDeclareConst(
                  operation.operationName,
                  <<tsTypeReference(typeName(full.context)),
                    variablesType(operation, variables),
                    tsTypeReference(typeName(partial.context))>>)>>
         \o defaultExportOfOperation(operation, count)
         \o rest.statements,
     importedTypes |-> rest.importedTypes,
     thrown |-> rest.thrown,
     history |-> full.context.history \o partial.context.history \o rest.history]

printOperationsRest(operations, ast, opts, count, variables, full, partial) ==
    operationStatements(Head(operations), count, variables, full, partial,
        printOperations(Tail(operations), ast, opts, count,
                        partial.context.importedTypes))

printOperationsPartial(operations, ast, opts, count, variables, full) ==
    printOperationsRest(operations, ast, opts, count, variables, full,
        tsInterfaceBodyForObjectField(
            Head(operations), getRootType(Head(operations), ast),
            ObjectStack(getRootType(Head(operations), ast), <<>>),
            OperationContext(Head(operations), ast, partialOptions(opts),
                             full.context.importedTypes),
            FALSE))

printOperationsFull(operations, ast, opts, count, variables) ==
    IF variables.context.thrown # ""
    THEN [statements |-> <<>>, importedTypes |-> variables.context.importedTypes,
          thrown |-> variables.context.thrown, history |-> <<>>]
    ELSE printOperationsPartial(operations, ast, opts, count, variables,
             tsInterfaceBodyForObjectField(
                 Head(operations), getRootType(Head(operations), ast),
                 ObjectStack(getRootType(Head(operations), ast), <<>>),
                 afterVariables(Head(operations), variables), FALSE))

printOperations(operations, ast, opts, count, importedTypes) ==
    IF operations = <<>>
    THEN [statements |-> <<>>, importedTypes |-> importedTypes, thrown |-> "",
          history |-> <<>>]
    ELSE printOperationsFull(operations, ast, opts, count,
             variablesInterface(
                 Head(operations).variables,
                 OperationContext(Head(operations), ast, fullOptions(opts),
                                  importedTypes)))

printDocumentOfOperationsReturns(f, fragmentsBody, operationsBody) ==
    IF operationsBody.thrown # ""
    THEN [code |-> <<>>, thrown |-> operationsBody.thrown, history |-> <<>>]
    ELSE [code |-> schemaImports(operationsBody.importedTypes)
                   \o baseDocumentNodeImport(Len(f.operations))
                   \o documentNodeImport(Len(f.operations))
                   \o fragmentsBody.statements
                   \o operationsBody.statements
                   \o baseDocumentNode(Len(f.operations)),
          thrown |-> "",
          history |-> fragmentsBody.history \o operationsBody.history]

printDocumentOfOperationsLoop(f, ast, opts, fragmentsBody) ==
    printDocumentOfOperationsReturns(f, fragmentsBody,
        printOperations(f.operations, ast, opts, Len(f.operations),
                        fragmentsBody.importedTypes))

printDocumentOfOperations(f, ast, opts) ==
    printDocumentOfOperationsLoop(f, ast, opts,
        printFragments(f.fragments, ast, fullOptions(opts),
                       FileContext.importedTypes))

(***************************************************************************)
(* print2/index.ts: printFile and its printer.  Its ObjectStack has the    *)
(* code of the ObjectStack above (parentFields, a fresh seenFields in      *)
(* nested and fragment), so the stack operators are shared.                *)
(***************************************************************************)
print2_typeName(context) ==
    ucFirst(context.operation.operationName)
    \o ucFirst(context.operation.operationType) \o DataName

print2_exportReference(context, type) ==
    tsQualifiedName(print2_typeName(context), type.id)

print2_typenameField ==
    Field(typenameName, typenameName, GraphQLString, FALSE, <<>>, <<>>)

RECURSIVE print2_tsInterfaceBodyForObjectField(_, _, _, _)
RECURSIVE print2_mapTsPropertyForField(_, _, _, _)
RECURSIVE print2_mapTsPropertyForFieldRest(_, _, _, _)
RECURSIVE print2_tsTypeForInlineFragment(_, _, _, _)
RECURSIVE print2_mapTsTypeForInlineFragment(_, _, _, _)
RECURSIVE print2_mapTsTypeForInlineFragmentRest(_, _, _, _)
RECURSIVE print2_tsTypeForObjectField(_, _, _, _)
RECURSIVE print2_tsTypeForObjectFieldOther(_, _, _, _, _)
RECURSIVE print2_tsPropertyForField(_, _, _, _)
RECURSIVE print2_tsTypeForGraphQLType(_, _, _, _)

\* const typename = addTypename && !stack.hasSeenField(typenameField)
print2_addsTypename(details, stack, context) ==
    /\ context.options.addTypename
    /\ ~hasSeenField(filterUniqueFields(details.fields, stack).stack,
                     print2_typenameField)

print2_printedFields(details, stack, context) ==
    IF print2_addsTypename(details, stack, context)
    THEN <<print2_typenameField>> \o filterUniqueFields(details.fields, stack).fields
    ELSE filterUniqueFields(details.fields, stack).fields

print2_tsInterfaceBodyReturns(details, graphQLType, stack, context, body) ==
    [body |-> body.properties,
     context |-> record(body.context,
                   [call |-> "tsInterfaceBodyForObjectField",
                    fields |-> details.fields, graphQLType |-> graphQLType,
                    stackName |-> stackName(stack),
                    requiresTypename |-> FALSE, partial |-> FALSE,
                    addedTypename |-> print2_addsTypename(details, stack, context),
                    body |-> body.properties])]

print2_tsInterfaceBodyForObjectField(details, graphQLType, stack, context) ==
    print2_tsInterfaceBodyReturns(details, graphQLType, stack, context,
        print2_mapTsPropertyForField(
            print2_printedFields(details, stack, context), graphQLType,
            filterUniqueFields(details.fields, stack).stack, context))

print2_mapTsPropertyForField(fields, graphQLType, stack, context) ==
    IF fields = <<>> THEN [properties |-> <<>>, context |-> context]
    ELSE print2_mapTsPropertyForFieldRest(
             fields, graphQLType, stack,
             print2_tsPropertyForField(Head(fields), graphQLType, stack, context))

print2_mapTsPropertyForFieldRest(fields, graphQLType, stack, first) ==
    consProperty(first,
        print2_mapTsPropertyForField(Tail(fields), graphQLType, stack,
                                     first.context))

print2_tsTypeForInlineFragmentReturns(inlineFragment, stack, body) ==
    LET interfaceDeclaration ==
            tsInterfaceDeclaration(
                stackName(stack) \o inlineFragment.typeCondition.name, body.body)
    IN [type |-> print2_exportReference(body.context, interfaceDeclaration),
        context |-> export(body.context, interfaceDeclaration)]

print2_tsTypeForInlineFragment(inlineFragment, graphQLType, stack, context) ==
    print2_tsTypeForInlineFragmentReturns(inlineFragment, stack,
        print2_tsInterfaceBodyForObjectField(
            inlineFragment, inlineFragment.typeCondition, stack, context))

print2_mapTsTypeForInlineFragment(inlineFragments, graphQLType, stack, context) ==
    IF inlineFragments = <<>> THEN [types |-> <<>>, context |-> context]
    ELSE print2_mapTsTypeForInlineFragmentRest(
             inlineFragments, graphQLType, stack,
             print2_tsTypeForInlineFragment(
                 Head(inlineFragments), graphQLType,
                 fragment(stack, Head(inlineFragments).typeCondition), context))

print2_mapTsTypeForInlineFragmentRest(inlineFragments, graphQLType, stack, first) ==
    consType(first,
        print2_mapTsTypeForInlineFragment(Tail(inlineFragments), graphQLType,
                                          stack, first.context))

print2_tsTypeForObjectFieldUnion(field, graphQLType, stack, context, fragmentTypes, otherBody) ==
    LET missing   == missingPossibleTypes(field.inlineFragments, graphQLType,
                                          context.ast)
        otherTypeInterface ==
            tsInterfaceDeclaration(stackName(stack) \o OtherName, otherBody.body)
        hasOther  == Len(missing) > 0
        after     == IF hasOther
                     THEN export(otherBody.context, otherTypeInterface)
                     ELSE fragmentTypes.context
        type      == tsUnionType(
                         IF hasOther
                         THEN Append(fragmentTypes.types,
                                     print2_exportReference(after,
                                                            otherTypeInterface))
                         ELSE fragmentTypes.types)
    IN [type |-> type,
        context |-> record(after, tsTypeForObjectFieldRecord(
                                      field, graphQLType, stack, context, type))]

print2_tsTypeForObjectFieldOther(field, graphQLType, stack, context, fragmentTypes) ==
    print2_tsTypeForObjectFieldUnion(field, graphQLType, stack, context,
        fragmentTypes,
        print2_tsInterfaceBodyForObjectField(
            field,
            TypeArray(missingPossibleTypes(field.inlineFragments, graphQLType,
                                           context.ast)),
            stack, fragmentTypes.context))

print2_tsTypeForObjectFieldReturns(field, graphQLType, stack, context, body) ==
    LET interfaceDeclaration == tsInterfaceDeclaration(stackName(stack), body.body)
        type == print2_exportReference(body.context, interfaceDeclaration)
    IN [type |-> type,
        context |-> record(export(body.context, interfaceDeclaration),
                           tsTypeForObjectFieldRecord(field, graphQLType, stack,
                                                      context, type))]

print2_tsTypeForObjectField(field, graphQLType, stack, context) ==
    IF Len(field.inlineFragments) > 0
    THEN print2_tsTypeForObjectFieldOther(field, graphQLType, stack, context,
             print2_mapTsTypeForInlineFragment(field.inlineFragments, graphQLType,
                                               stack, context))
    ELSE print2_tsTypeForObjectFieldReturns(field, graphQLType, stack, context,
             print2_tsInterfaceBodyForObjectField(field, graphQLType, stack,
                                                  context))

\* if (field.fieldName === '__typename' && parentType) { ... }
print2_tsPropertyForTypename(field, parentType, stack, context) ==
    LET typename ==
            IF isArray(parentType)
            THEN tsUnionType([i \in DOMAIN parentType.types |->
                                tsTypenameForGraphQLType(parentType.types[i])])
            ELSE tsTypenameForGraphQLType(parentType)
        typenameProperty ==
            tsPropertySignature(field.responseName, typename, field.isConditional)
    IN [property |-> typenameProperty,
        context |-> record(context,
                      tsPropertyForFieldRecord(field, parentType, stack, context,
                                               FALSE, typenameProperty))]

print2_tsPropertyForFieldReturns(field, parentType, stack, context, type) ==
    LET property == tsPropertySignature(
                        field.responseName, type.type,
                        field.isConditional \/ ~isNonNullType(field.type))
    IN [property |-> property,
        context |-> record(type.context,
                      tsPropertyForFieldRecord(field, parentType, stack, context,
                                               FALSE, property))]

print2_tsPropertyForField(field, parentType, stack, context) ==
    IF field.fieldName = typenameName /\ truthy(parentType)
    THEN print2_tsPropertyForTypename(field, parentType, stack, context)
    ELSE print2_tsPropertyForFieldReturns(field, parentType, stack, context,
             print2_tsTypeForGraphQLType(field.type, field, stack, context))

print2_tsTypeForGraphQLType(graphQLType, field, stack, context) ==
    tsTypeForGraphQLTypeReturns(graphQLType, field, context,
        IF isScalarType(unwrap(graphQLType)) \/ isEnumType(unwrap(graphQLType))
        THEN tsTypeForLeafType(unwrap(graphQLType), context)
        ELSE IF isListType(unwrap(graphQLType))
        THEN tsArrayTypeOf(
                 print2_tsTypeForGraphQLType(unwrap(graphQLType).ofType, field,
                                             stack, context))
        ELSE IF \/ isObjectType(unwrap(graphQLType))
                \/ isInterfaceType(unwrap(graphQLType))
                \/ isUnionType(unwrap(graphQLType))
        THEN print2_tsTypeForObjectField(
                 field, unwrap(graphQLType),
                 nested(stack, field, unwrap(graphQLType)), context)
        ELSE [type |-> tsAnyKeyword, context |-> context])

\* fields.map((field) => tsPropertyForField(field, undefined,
\*                                          new ObjectStack(type, []), context))
RECURSIVE print2_mapRootFields(_, _, _)
RECURSIVE print2_mapRootFieldsRest(_, _, _)
print2_mapRootFieldsRest(fields, type, first) ==
    consProperty(first, print2_mapRootFields(Tail(fields), type, first.context))

print2_mapRootFields(fields, type, context) ==
    IF fields = <<>> THEN [properties |-> <<>>, context |-> context]
    ELSE print2_mapRootFieldsRest(fields, type,
             print2_tsPropertyForField(Head(fields), Undefined,
                                       ObjectStack(type, <<>>), context))

print2_variablesType(operation, variables) ==
    IF hasVariables(operation)
    THEN print2_exportReference(afterVariables(operation, variables),
                                variables.declaration)
    ELSE tsNeverKeyword

print2_namespace(context) ==
    IF Len(context.exportedTypes) > 0
    THEN <<exportNamespace(print2_typeName(context), context.exportedTypes)>>
    ELSE <<>>

printFileReturns(operation, variables, body) ==
    [code |->
         <<importDeclaration(<<DocumentNodeName>>, "graphql-typed")>>
         \o schemaImports(body.context.importedTypes)
         \o print2_namespace(body.context)
         \o <<exportInterface(
                tsInterfaceDeclaration(print2_typeName(body.context),
                                       body.properties)),
              declareDocument(<<tsTypeReference(print2_typeName(body.context)),
                                print2_variablesType(operation, variables)>>),
              exportDefaultDocument>>,
     thrown |-> "",
     history |-> body.context.history]

printFileOperation(operation, ast, variables) ==
    IF variables.context.thrown # ""
    THEN [code |-> <<>>, thrown |-> variables.context.thrown, history |-> <<>>]
    ELSE printFileReturns(operation, variables,
             print2_mapRootFields(operation.fields, ast.schema.queryType,
                                  afterVariables(operation, variables)))

printFile(f, ast, opts) ==
    IF Len(f.operations) = 0
    THEN \* const {fields} = operations[0] destructures undefined
         [code |-> <<>>, thrown |-> "TypeError", history |-> <<>>]
    ELSE printFileOperation(f.operations[1], ast,
             variablesInterface(f.operations[1].variables,
                 OperationContext(f.operations[1], ast, fullOptions(opts), <<>>)))

(***************************************************************************)
(* The inputs: the schemas and documents of the tests and of the           *)
(* CHANGELOG (Person, Ball, union Object, the self/partner queries), with  *)
(* selection lists of up to MaxFields entries.                             *)
(***************************************************************************)
MaxFields == 2

SeqsUpTo(S, n) == UNION {[1..m -> S] : m \in 0..n}
NonEmptySeqsUpTo(S, n) == UNION {[1..m -> S] : m \in 1..n}

ageStr         == <<"a","g","e">>
filterStr      == <<"f","i","l","t","e","r">>
breedStr       == <<"b","r","e","e","d">>
nameStr        == <<"n","a","m","e">>
tagsStr        == <<"t","a","g","s">>
bornStr        == <<"b","o","r","n">>
typeStr        == <<"t","y","p","e">>
selfStr        == <<"s","e","l","f">>
partnerStr     == <<"p","a","r","t","n","e","r">>
wifeStr        == <<"w","i","f","e">>
selfPartnerStr == <<"s","e","l","f","P","a","r","t","n","e","r">>
friendsStr     == <<"f","r","i","e","n","d","s">>
objectStr      == <<"o","b","j","e","c","t">>
objectsStr     == <<"o","b","j","e","c","t","s">>
objectBallStr  == <<"o","b","j","e","c","t","B","a","l","l">>
namedStr       == <<"n","a","m","e","d">>
colorStr       == <<"c","o","l","o","r">>
ownerStr       == <<"o","w","n","e","r">>
variablesStr   == <<"v","a","r","i","a","b","l","e","s">>
detailsStr     == <<"D","e","t","a","i","l","s">>
aStringStr     == <<"a","S","t","r","i","n","g">>
dateStr        == <<"d","a","t","e">>

Query    == GraphQLObjectType(<<"Q","u","e","r","y">>)
Mutation == GraphQLObjectType(<<"M","u","t","a","t","i","o","n">>)
Person   == GraphQLObjectType(<<"P","e","r","s","o","n">>)
Ball     == GraphQLObjectType(<<"B","a","l","l">>)
Cube     == GraphQLObjectType(<<"C","u","b","e">>)
Object   == GraphQLUnionType(<<"O","b","j","e","c","t">>)
Named    == GraphQLInterfaceType(<<"N","a","m","e","d">>)
Date     == GraphQLScalarType(<<"D","a","t","e">>)
Breed    == GraphQLEnumType(<<"B","r","e","e","d">>)

\* union Object = Ball (CHANGELOG) or union Object = Ball | Cube;
\* interface Named is implemented by Person and Ball; no subscription type
Schema(objects) ==
    [queryType |-> Query, mutationType |-> Mutation,
     subscriptionType |-> Undefined,
     possibleTypes |-> (Object.name :> objects) @@ (Named.name :> <<Person, Ball>>)]

Schemas == {Schema(<<Ball>>), Schema(<<Ball, Cube>>)}

Scalar(fieldName, responseName, type, isConditional) ==
    Field(fieldName, responseName, type, isConditional, <<>>, <<>>)

nameField          == Scalar(nameStr, nameStr, GraphQLNonNull(GraphQLString), FALSE)
nameConditional    == Scalar(nameStr, nameStr, GraphQLNonNull(GraphQLString), TRUE)
typenameSelected   == Scalar(typenameName, typenameName,
                             GraphQLNonNull(GraphQLString), FALSE)
typenameAliased    == Scalar(typenameName, typeStr,
                             GraphQLNonNull(GraphQLString), FALSE)
typenameConditional == Scalar(typenameName, typenameName,
                              GraphQLNonNull(GraphQLString), TRUE)
tagsConditional    == Scalar(tagsStr, tagsStr,
                        GraphQLNonNull(GraphQLList(GraphQLNonNull(GraphQLString))),
                        TRUE)
tagsNullable       == Scalar(tagsStr, tagsStr, GraphQLList(GraphQLString), FALSE)
bornField          == Scalar(bornStr, bornStr, Date, FALSE)
breedField         == Scalar(breedStr, breedStr, GraphQLNonNull(Breed), FALSE)
colorField         == Scalar(colorStr, colorStr, GraphQLNonNull(GraphQLString), FALSE)

\* the list types of the tests: [String!]!, [String!], [String]!, [String],
\* [[String!]]! and [[String]]
ListTypes ==
    {GraphQLNonNull(GraphQLList(GraphQLNonNull(GraphQLString))),
     GraphQLList(GraphQLNonNull(GraphQLString)),
     GraphQLNonNull(GraphQLList(GraphQLString)),
     GraphQLList(GraphQLString),
     GraphQLNonNull(GraphQLList(GraphQLList(GraphQLNonNull(GraphQLString)))),
     GraphQLList(GraphQLList(GraphQLString))}
listField(type) == Scalar(tagsStr, tagsStr, type, FALSE)

\* a field whose type is of a kind the field mapper has no branch for (an
\* input object type), and a variable whose type is of a kind the input mapper
\* has no branch for (an object type): query Details($self: Person) { name }
Variable(name, type) == [name |-> name, type |-> type]
filterField ==
    Scalar(filterStr, filterStr, GraphQLInputObjectType(filterStr), FALSE)
selfVariable == Variable(selfStr, Person)

\* the built-in scalars, non-null and nullable: age: Int!, jerseyNumber: Int
BuiltInScalars ==
    {GraphQLString, GraphQLInt, GraphQLFloat, GraphQLBoolean, GraphQLID}
builtInField(type) == Scalar(ageStr, ageStr, type, FALSE)

\* selections of scalars made on the root type
RootScalars == {nameField, nameConditional, typenameSelected, typenameAliased,
                typenameConditional, tagsConditional, tagsNullable, bornField}

\* selections made on a Person
partnerField(fields) ==
    Field(partnerStr, partnerStr, Person, FALSE, fields, <<>>)
wifeField(fields) ==
    Field(partnerStr, wifeStr, Person, FALSE, fields, <<>>)
PersonFields == {nameField, nameConditional, typenameSelected, typenameAliased,
                 typenameConditional, partnerField(<<nameField>>),
                 wifeField(<<typenameSelected, nameField>>)}

selfField(isConditional, fields) ==
    Field(selfStr, selfStr, GraphQLNonNull(Person), isConditional, fields, <<>>)
selfPartnerField ==
    Field(selfPartnerStr, selfPartnerStr, Person, FALSE, <<nameField>>, <<>>)
friendsField ==
    Field(friendsStr, friendsStr,
          GraphQLNonNull(GraphQLList(GraphQLNonNull(Person))), TRUE,
          <<nameField>>, <<>>)
variablesField ==
    Field(variablesStr, variablesStr, Person, FALSE, <<nameField>>, <<>>)

\* selections made on the union Object and on the interface Named
ownerField == Field(ownerStr, ownerStr, Person, FALSE, <<nameField>>, <<>>)
InlineFragments ==
    {InlineFragment(Ball, <<Ball>>, <<colorField>>),
     InlineFragment(Ball, <<Ball>>, <<typenameSelected, ownerField>>),
     InlineFragment(Cube, <<Cube>>, <<colorField>>),
     InlineFragment(Cube, <<Cube>>, <<ownerField, colorField>>)}
objectField(fields, inlineFragments) ==
    Field(objectStr, objectStr, Object, FALSE, fields, inlineFragments)
objectBallField ==
    Field(objectBallStr, objectBallStr, Ball, FALSE, <<colorField>>, <<>>)
namedField(fields, inlineFragments) ==
    Field(namedStr, namedStr, GraphQLNonNull(Named), FALSE, fields, inlineFragments)
\* a list of the union: objects: [Object!]!
objectsField(inlineFragments) ==
    Field(objectsStr, objectsStr,
          GraphQLNonNull(GraphQLList(GraphQLNonNull(Object))), FALSE, <<>>,
          inlineFragments)
\* '... on Named' selected on a field of the object type Person
selfOnNamed ==
    Field(selfStr, selfStr, GraphQLNonNull(Person), FALSE, <<nameField>>,
          <<InlineFragment(Named, <<Person>>, <<nameField>>)>>)

Variables == {Variable(aStringStr, GraphQLNonNull(GraphQLString)),
              Variable(dateStr, Date),
              Variable(tagsStr, GraphQLList(GraphQLNonNull(GraphQLString))),
              Variable(nameStr, Undefined)}

\* the variables of an operation have different names
VariableLists ==
    {variables \in NonEmptySeqsUpTo(Variables, MaxFields) :
        \A i, j \in DOMAIN variables :
            variables[i].name = variables[j].name => i = j}

Operation(operationType, variables, fields) ==
    [kind |-> "Operation", operationName |-> detailsStr,
     operationType |-> operationType, variables |-> variables, fields |-> fields]
petsStr == <<"p","e","t","s">>
dataStr == <<"d","a","t","a">>

NamedOperation(operationName, operationType, variables, fields) ==
    [kind |-> "Operation", operationName |-> operationName,
     operationType |-> operationType, variables |-> variables, fields |-> fields]

FragmentDefinition(fields) ==
    [kind |-> "Fragment", fragmentName |-> detailsStr, typeCondition |-> Person,
     fields |-> fields]

RootSelections ==
    NonEmptySeqsUpTo(RootScalars, MaxFields)
    \cup {<<selfField(c, fields)>> \o rest :
            c \in BOOLEAN, fields \in SeqsUpTo(PersonFields, MaxFields),
            rest \in {<<>>, <<selfPartnerField>>}}
    \cup {<<objectField(fields, inlineFragments)>> \o rest :
            fields \in {<<>>, <<typenameSelected>>},
            inlineFragments \in NonEmptySeqsUpTo(InlineFragments, MaxFields),
            rest \in {<<>>, <<objectBallField>>}}
    \cup {<<namedField(fields, inlineFragments)>> :
            fields \in {<<nameField>>, <<typenameAliased, nameField>>},
            inlineFragments \in
                {<<InlineFragment(Person, <<Person>>, <<nameField, bornField>>)>>,
                 <<InlineFragment(Person, <<Person>>, <<nameField>>),
                   InlineFragment(Ball, <<Ball>>, <<nameField, colorField>>)>>}}
    \cup {<<friendsField>>, <<selfOnNamed>>}
    \cup {<<namedField(<<nameField, typenameSelected, nameConditional>>,
                        <<InlineFragment(Person, <<Person>>, <<bornField>>)>>)>>}
    \cup {<<listField(type)>> : type \in ListTypes}
    \cup {<<filterField>>, <<bornField, breedField>>, <<breedField, bornField>>}
    \cup {<<builtInField(type)>> :
            type \in BuiltInScalars
                      \cup {GraphQLNonNull(scalar) : scalar \in BuiltInScalars}}
    \cup {<<objectsField(<<inlineFragment>>)>> :
            inlineFragment \in InlineFragments}

Files ==
    {[operation |-> Operation(OperationTypeQuery, <<>>, fields),
      fragments |-> <<>>] : fields \in RootSelections}
    \cup {[operation |-> Operation(OperationTypeQuery, variables, fields),
           fragments |-> <<>>] :
            variables \in VariableLists,
            fields \in {<<nameField>>, <<variablesField>>}}
    \cup {[operation |-> Operation(OperationTypeQuery,
                                    <<Variable(tagsStr, type)>>, <<nameField>>),
           fragments |-> <<>>] : type \in ListTypes}
    \cup {[operation |-> Operation(OperationTypeQuery, <<selfVariable>>,
                                    <<nameField>>),
           fragments |-> <<>>]}
    \cup {[operation |-> NamedOperation(dataStr, OperationTypeMutation, <<>>,
                                         <<selfField(FALSE, <<nameField>>)>>),
           fragments |-> <<>>]}
    \cup {[operation |-> Operation(operationType, <<>>, fields),
           fragments |-> <<>>] :
            operationType \in {OperationTypeMutation, OperationTypeSubscription},
            fields \in {<<nameField>>, <<typenameSelected>>}}
    \cup {[operation |-> Undefined, fragments |-> fragments] :
            fragments \in SeqsUpTo({FragmentDefinition(<<nameField>>),
                                    FragmentDefinition(<<partnerField(<<nameField>>)>>)},
                                   MaxFields)}

(***************************************************************************)
(* The state machine: a file is handed to one of the two printers.         *)
(***************************************************************************)
\* the parts of the repository that take no step in this specification
NoCall == [call |-> "none"]
StacksIdle ==
    /\ stacks = <<>>
    /\ seenSets = <<>>
    /\ bodies = <<>>
    /\ stackCall = NoCall
CallsIdle ==
    /\ args = NoCall
    /\ returned = NoCall
FillIdle == documentToOperation = <<>>
WatchIdle ==
    /\ contents = <<>>
    /\ documentMapByProject = <<>>
    /\ events = <<>>
    /\ handled = 0
    /\ listening = TRUE
    /\ exited = FALSE
OthersIdle == StacksIdle /\ CallsIdle /\ FillIdle /\ WatchIdle

NotPrinted == [code |-> <<>>, thrown |-> "", history |-> <<>>]

\* the file printed between two calls for the same file: it imports Date
AnotherFile ==
    [operation |-> Operation(OperationTypeQuery, <<>>, <<bornField>>),
     fragments |-> <<>>]

\* the importedTypes of the FileContext of a call, which its schemaImports
\* lists in the generated code
importedTypesLeft(code) ==
    LET imports == {i \in DOMAIN code :
                       /\ code[i].statement = "import"
                       /\ code[i].from = "schemaTypesPath"}
    IN IF imports = {} THEN <<>>
       ELSE code[CHOOSE i \in imports : TRUE].names

Init ==
    /\ schema \in Schemas
    /\ file \in Files
    /\ options \in [addTypename : BOOLEAN]
    /\ pc = "init"
    /\ printed = NotPrinted
    /\ left = <<>>
    /\ again = NotPrinted
    /\ fileMap = <<>>
    /\ index = 0
    /\ written = <<>>
    /\ emitted = <<>>
    /\ OthersIdle

PrintDocument ==
    /\ pc = "init"
    /\ printed' = printDocument(file, [schema |-> schema], options)
    /\ left' = Append(left, importedTypesLeft(printed'.code))
    /\ pc' = "printDocument"
    /\ UNCHANGED otherVars
    /\ UNCHANGED <<schema, file, options, again>>
    /\ UNCHANGED builderVars

\* print2's File lists the operations of the file
PrintFile ==
    /\ pc = "init"
    /\ printed' = printFile(
                     [operations |-> IF truthy(file.operation)
                                     THEN <<file.operation>> ELSE <<>>,
                      fragments |-> file.fragments],
                     [schema |-> schema], options)
    /\ pc' = "printFile"
    /\ UNCHANGED otherVars
    /\ UNCHANGED <<schema, file, options, left, again>>
    /\ UNCHANGED builderVars

\* printDocument is called for another file of the project
PrintAnother ==
    /\ pc = "printDocument"
    /\ left' = Append(left, importedTypesLeft(
                   printDocument(AnotherFile, [schema |-> schema], options).code))
    /\ pc' = "printAnother"
    /\ UNCHANGED otherVars
    /\ UNCHANGED <<schema, file, options, printed, again>>
    /\ UNCHANGED builderVars

\* printDocument is called once more with the arguments of the first call
PrintDocumentAgain ==
    /\ pc \in {"printDocument", "printAnother"}
    /\ again' = printDocument(file, [schema |-> schema], options)
    /\ left' = Append(left, importedTypesLeft(again'.code))
    /\ pc' = "printDocumentAgain"
    /\ UNCHANGED otherVars
    /\ UNCHANGED <<schema, file, options, printed>>
    /\ UNCHANGED builderVars

Next == PrintDocument \/ PrintFile \/ PrintAnother \/ PrintDocumentAgain

Spec == Init /\ [][Next]_vars

(***************************************************************************)
(* The Builder (src/unnamed/part_000): one pass of                         *)
(* generateDocumentTypesForProject over the files of a project.  A file is *)
(* identified by its position in fileMap, which stands for its path.       *)
(***************************************************************************)
MaxFiles == 3

\* a file that prints, another one, and one whose printing throws
ThrowingFile ==
    [operation |-> Operation(OperationTypeQuery, <<selfVariable>>, <<nameField>>),
     fragments |-> <<>>]
BuilderFiles ==
    {[operation |-> Operation(OperationTypeQuery, <<>>, <<nameField>>),
      fragments |-> <<>>],
     AnotherFile, ThrowingFile}

NoFile == [operation |-> Undefined, fragments |-> <<>>]

errorEvent(path)     == [event |-> "error", path |-> path]
buildDocsEvent(path) == [event |-> "build:docs", documentPath |-> path]

BuilderInit ==
    /\ schema \in Schemas
    /\ options \in [addTypename : BOOLEAN]
    /\ fileMap \in SeqsUpTo(BuilderFiles, MaxFiles)
    /\ file = NoFile
    /\ pc = "generateDocumentTypesForProject"
    /\ printed = NotPrinted
    /\ left = <<>>
    /\ again = NotPrinted
    /\ index = 1
    /\ written = <<>>
    /\ emitted = <<>>
    /\ OthersIdle

\* compile throws: the error is emitted and the pass returns
compileThrows ==
    /\ pc = "generateDocumentTypesForProject"
    /\ emitted' = Append(emitted, errorEvent(0))
    /\ pc' = "returned"
    /\ UNCHANGED otherVars
    /\ UNCHANGED <<schema, file, options, printed, left, again,
                   fileMap, index, written>>

\* compile returns the AST and the loop over the files starts
compile ==
    /\ pc = "generateDocumentTypesForProject"
    /\ pc' = "for"
    /\ UNCHANGED otherVars
    /\ UNCHANGED <<schema, file, options, printed, left, again, builderVars>>

\* one turn of the loop in which getDocumentDefinition returns: the
\* definition is written and build:docs emitted
writeDocumentFile ==
    /\ pc = "for"
    /\ index <= Len(fileMap)
    /\ printDocument(fileMap[index], [schema |-> schema], options).thrown = ""
    /\ file' = fileMap[index]
    /\ printed' = printDocument(fileMap[index], [schema |-> schema], options)
    /\ left' = Append(left, importedTypesLeft(printed'.code))
    /\ written' = Append(written, index)
    /\ emitted' = Append(emitted, buildDocsEvent(index))
    /\ index' = index + 1
    /\ UNCHANGED otherVars
    /\ UNCHANGED <<schema, options, pc, again, fileMap>>

\* one turn of the loop in which printDocument throws: getDocumentDefinition
\* emits the error and throws it again, writeDocumentFile lets it through,
\* and the catch around the whole loop swallows it
getDocumentDefinitionThrows ==
    /\ pc = "for"
    /\ index <= Len(fileMap)
    /\ printDocument(fileMap[index], [schema |-> schema], options).thrown # ""
    /\ file' = fileMap[index]
    /\ printed' = printDocument(fileMap[index], [schema |-> schema], options)
    /\ left' = Append(left, importedTypesLeft(printed'.code))
    /\ emitted' = Append(emitted, errorEvent(index))
    /\ pc' = "returned"
    /\ UNCHANGED otherVars
    /\ UNCHANGED <<schema, options, again, fileMap, index, written>>

\* the loop is over
forEnds ==
    /\ pc = "for"
    /\ index > Len(fileMap)
    /\ pc' = "returned"
    /\ UNCHANGED otherVars
    /\ UNCHANGED <<schema, file, options, printed, left, again, builderVars>>

BuilderNext ==
    \/ compileThrows
    \/ compile
    \/ writeDocumentFile
    \/ getDocumentDefinitionThrows
    \/ forEnds

BuilderSpec == BuilderInit /\ [][BuilderNext]_vars

(***************************************************************************)
(* The printDocument of files with any number of operations is handed a    *)
(* file with up to MaxOperations operations of different names.            *)
(***************************************************************************)
MaxOperations == 3

Operations ==
    {NamedOperation(detailsStr, OperationTypeQuery, <<>>, <<nameField>>),
     NamedOperation(petsStr, OperationTypeQuery,
                    <<Variable(aStringStr, GraphQLNonNull(GraphQLString))>>,
                    <<selfField(FALSE, <<nameField>>)>>),
     NamedOperation(dataStr, OperationTypeMutation, <<>>, <<bornField>>)}

FilesOfOperations ==
    {[operations |-> operations, fragments |-> fragments] :
        operations \in {operations \in SeqsUpTo(Operations, MaxOperations) :
                           \A i, j \in DOMAIN operations :
                               operations[i] = operations[j] => i = j},
        fragments \in {<<>>, <<FragmentDefinition(<<nameField>>)>>}}

OperationsInit ==
    /\ schema \in Schemas
    /\ file \in FilesOfOperations
    /\ options \in [addTypename : BOOLEAN]
    /\ pc = "init"
    /\ printed = NotPrinted
    /\ left = <<>>
    /\ again = NotPrinted
    /\ fileMap = <<>>
    /\ index = 0
    /\ written = <<>>
    /\ emitted = <<>>
    /\ OthersIdle

PrintDocumentOfOperations ==
    /\ pc = "init"
    /\ printed' = printDocumentOfOperations(file, [schema |-> schema], options)
    /\ left' = Append(left, importedTypesLeft(printed'.code))
    /\ pc' = "printDocument"
    /\ UNCHANGED otherVars
    /\ UNCHANGED <<schema, file, options, again>>
    /\ UNCHANGED builderVars

OperationsNext == PrintDocumentOfOperations

OperationsSpec == OperationsInit /\ [][OperationsNext]_vars

\* the printers and the Builder's pass take no step in the specifications below
PrinterIdle ==
    /\ schema = Schema(<<Ball, Cube>>)
    /\ options = [addTypename |-> FALSE]
    /\ file = NoFile
    /\ pc = "idle"
    /\ printed = NotPrinted
    /\ left = <<>>
    /\ again = NotPrinted
BuilderIdle ==
    /\ fileMap = <<>>
    /\ index = 0
    /\ written = <<>>
    /\ emitted = <<>>

(***************************************************************************)
(* ObjectStack (src/unnamed/part_002): the frames are objects, kept here   *)
(* in the heap `stacks` by address; a frame's seenFields is the address of *)
(* its Set in `seenSets`; parent is the address of the parent frame, or 0. *)
(***************************************************************************)
MaxFrames == 3

\* constructor(type?, field?, parent?, isFragment = false), and the
\* initializer seenFields = new Set(), whose address is the next free one
frame_ObjectStack(type, field, parent, isFragment, address) ==
    [type |-> type, field |-> field, parent |-> parent,
     isFragment |-> isFragment, seenFields |-> address]

\* get name()
RECURSIVE frame_name(_, _)
frame_nameReturns(this, parentName) ==
    LET fieldName == IF this.field # Undefined THEN ucFirst(this.field.responseName)
                     ELSE <<>>
        name == parentName \o fieldName
    IN IF this.isFragment
       THEN name \o (IF truthy(this.type) THEN this.type.name ELSE OtherName)
       ELSE name
frame_name(heap, address) ==
    frame_nameReturns(heap[address],
        IF heap[address].parent # 0 THEN frame_name(heap, heap[address].parent)
        ELSE <<>>)

\* nested(field, type)
frame_nested(heap, this, field, type) ==
    frame_ObjectStack(type, field, this, FALSE, Len(heap) + 1)

\* a variant whose frame is a child of the frame it is created from
frame_fragmentOfThis(heap, this, type) ==
    frame_ObjectStack(type, heap[this].field, this, TRUE, Len(heap) + 1)

\* a variant whose frame shares the Set of the frame it is created from
frame_fragmentOfSameSet(heap, this, type) ==
    frame_ObjectStack(type, heap[this].field, heap[this].parent, TRUE,
                      heap[this].seenFields)

\* fragment(type?)
frame_fragment(heap, this, type) ==
    frame_ObjectStack(type, heap[this].field, heap[this].parent, TRUE,
                      Len(heap) + 1)

\* sawField(field) and hasSeenField(field), on the heap of Sets
frame_sawField(sets, frame, field) ==
    [sets EXCEPT ![frame.seenFields] = @ \cup {field.responseName}]
frame_hasSeenField(sets, frame, field) ==
    field.responseName \in sets[frame.seenFields]

\* fields.filter((field) => { if (stack.hasSeenField(field)) return false;
\* stack.sawField(field); return true; }) of tsInterfaceBodyForObjectField
RECURSIVE frame_uniqueFields(_, _, _)
frame_uniqueFieldsRest(frame, field, isSeen, rest) ==
    [fields |-> IF isSeen THEN rest.fields ELSE <<field>> \o rest.fields,
     sets |-> rest.sets]
frame_uniqueFields(sets, frame, fields) ==
    IF fields = <<>> THEN [fields |-> <<>>, sets |-> sets]
    ELSE frame_uniqueFieldsRest(frame, Head(fields),
             frame_hasSeenField(sets, frame, Head(fields)),
             frame_uniqueFields(
                 IF frame_hasSeenField(sets, frame, Head(fields)) THEN sets
                 ELSE frame_sawField(sets, frame, Head(fields)),
                 frame, Tail(fields)))

\* the fields and the types the frames are made of
StackFields == {colorField, typenameAliased}
StackObjectFields == {objectField(<<>>, <<>>), ownerField}
StackTypes  == {Ball}
StackSelections == {<<colorField>>, <<typenameAliased, colorField>>,
                    <<colorField, typenameAliased, colorField>>}

Names(heap) == [address \in DOMAIN heap |-> frame_name(heap, address)]

\* no body is printed with the frame yet
NoBody == [fields |-> <<>>, uniqueFields |-> <<>>]

\* new ObjectStack(rootType)
StackInit ==
    /\ PrinterIdle /\ BuilderIdle /\ CallsIdle /\ FillIdle /\ WatchIdle
    /\ stacks = <<frame_ObjectStack(schema.queryType, Undefined, 0, FALSE, 1)>>
    /\ seenSets = <<{}>>
    /\ bodies = <<NoBody>>
    /\ stackCall = [call |-> "new", returned |-> 1, names |-> <<>>]

stackNested ==
    /\ Len(stacks) < MaxFrames
    /\ \E this \in DOMAIN stacks, field \in StackObjectFields :
         LET type == field.type IN
           /\ stacks' = Append(stacks, frame_nested(stacks, this, field, type))
           /\ stackCall' = [call |-> "nested", this |-> this, field |-> field,
                            type |-> type, returned |-> Len(stacks) + 1,
                            names |-> Names(stacks)]
    /\ seenSets' = Append(seenSets, {})
    /\ bodies' = Append(bodies, NoBody)
    /\ UNCHANGED notStackVars

stackFragment ==
    /\ Len(stacks) < MaxFrames
    /\ \E this \in DOMAIN stacks, type \in StackTypes \cup {Undefined} :
           /\ stacks' = Append(stacks, frame_fragment(stacks, this, type))
           /\ stackCall' = [call |-> "fragment", this |-> this, type |-> type,
                            returned |-> Len(stacks) + 1,
                            names |-> Names(stacks)]
    /\ seenSets' = Append(seenSets, {})
    /\ bodies' = Append(bodies, NoBody)
    /\ UNCHANGED notStackVars

\* tsInterfaceBodyForObjectField(fields, ..., stack, ...) filters the fields
\* with a frame; a frame is passed to it once
stackUniqueFields ==
    /\ \E this \in DOMAIN stacks, fields \in StackSelections :
           LET unique == frame_uniqueFields(seenSets, stacks[this], fields)
           IN /\ bodies[this] = NoBody
              /\ seenSets' = unique.sets
              /\ bodies' = [bodies EXCEPT ![this] =
                               [fields |-> fields, uniqueFields |-> unique.fields]]
    /\ stackCall' = [call |-> "uniqueFields"]
    /\ UNCHANGED stacks
    /\ UNCHANGED notStackVars

StackNext == stackNested \/ stackFragment \/ stackUniqueFields

StackSpec == StackInit /\ [][StackNext]_vars

(***************************************************************************)
(* graphql-tool-utilities/src/config.ts.  A path is the sequence of its    *)
(* segments, an absolute one starting with "/"; a glob pattern is a path   *)
(* whose segments may be "*" (any one segment) or "**" (any segments).     *)
(***************************************************************************)
isAbsolute(path) == path # <<>> /\ Head(path) = "/"

\* resolve(from, to) of 'path', for paths without '.' and '..'
resolve(from, to) == IF isAbsolute(to) THEN to ELSE from \o to

\* resolvePathRelativeToConfig(project, relativePath)
resolvePathRelativeToConfig(project, relativePath) ==
    resolve(project.dirpath, relativePath)

\* minimatch, segment by segment
RECURSIVE minimatch(_, _)
minimatch(path, pattern) ==
    IF pattern = <<>> THEN path = <<>>
    ELSE IF Head(pattern) = "**"
         THEN \E k \in 0..Len(path) :
                  minimatch(SubSeq(path, k + 1, Len(path)), Tail(pattern))
         ELSE /\ path # <<>>
              /\ Head(pattern) \in {"*", Head(path)}
              /\ minimatch(Tail(path), Tail(pattern))

\* the files there may be, in the order glob lists them
AllPaths == << <<"/", "cfg", "app", "a.graphql">>, <<"/", "cfg", "app", "b.graphql">>,
               <<"/", "cfg", "lib", "a.graphql">>, <<"/", "cfg", "schema.json">> >>

\* glob(pattern, {ignore}): the files that match the pattern and no pattern
\* of ignore
glob(files, pattern, ignore) ==
    SelectSeq(AllPaths, LAMBDA path :
        /\ path \in files
        /\ minimatch(path, pattern)
        /\ \A k \in DOMAIN ignore : ~minimatch(path, ignore[k]))

\* existsSync(path)
existsSync(files, path) == path \in files

\* string | string[] | undefined, as the project configuration holds them
StringOf(value) == [kind |-> "string", value |-> value]
ArrayOf(values) == [kind |-> "Array", values |-> values]

\* toArray(value)
toArray(value) ==
    IF ~truthy(value) THEN <<>>
    ELSE IF isArray(value) THEN value.values ELSE <<value.value>>

\* getGraphQLProjectInclude(projectConfig)
getGraphQLProjectInclude(projectConfig) == toArray(projectConfig.include)

\* a variant that reads the exclude patterns
getGraphQLProjectExcludeOfExclude(projectConfig) == toArray(projectConfig.exclude)

\* getGraphQLProjectExclude(projectConfig)
getGraphQLProjectExclude(projectConfig) == toArray(projectConfig.include)

\* one call of glob of getGraphQLProjectIncludedFilePaths, as it was made and
\* with what it gave
globCall(files, pattern, ignore) ==
    [pattern |-> pattern, ignore |-> ignore,
     filePaths |-> glob(files, pattern, ignore)]

\* getGraphQLProjectIncludedFilePaths(projectConfig): Promise.all keeps the
\* order of the include patterns
mapResolve(projectConfig, patterns) ==
    [k \in DOMAIN patterns |->
        resolvePathRelativeToConfig(projectConfig, patterns[k])]
getGraphQLProjectIncludedFilePaths(files, projectConfig) ==
    LET include == getGraphQLProjectInclude(projectConfig)
        globs == [k \in DOMAIN include |->
                     globCall(files,
                         resolvePathRelativeToConfig(projectConfig, include[k]),
                         mapResolve(projectConfig,
                                    getGraphQLProjectExclude(projectConfig)))]
    IN [call |-> "getGraphQLProjectIncludedFilePaths", globs |-> globs,
        thrown |-> "",
        value |-> join([k \in DOMAIN globs |-> globs[k].filePaths])]

\* the getGraphQLProjectIncludedFilePaths of the earlier config.ts
\* (projectConfig.includes, projectConfig.excludes)
earlier_getGraphQLProjectIncludedFilePaths(files, projectConfig) ==
    LET globs == [k \in DOMAIN projectConfig.includes |->
                     globCall(files,
                         resolvePathRelativeToConfig(projectConfig,
                                                     projectConfig.includes[k]),
                         mapResolve(projectConfig, projectConfig.excludes))]
    IN [call |-> "earlier_getGraphQLProjectIncludedFilePaths", globs |-> globs,
        thrown |-> "",
        value |-> join([k \in DOMAIN globs |-> globs[k].filePaths])]

\* a variant that looks for the schema before it looks at ignoreMissing
resolveSchemaPathLooksFirst(files, project, ignoreMissing) ==
    LET schemaPath == resolve(project.dirpath, project.schema)
        call == [call |-> "resolveSchemaPath", ignoreMissing |-> ignoreMissing]
    IN IF project.schema = <<>>
       THEN call @@ [thrown |-> "Missing GraphQL schemaPath", existsSync |-> <<>>]
       ELSE IF ~existsSync(files, schemaPath) /\ ~ignoreMissing
       THEN call @@ [thrown |-> "Schema not found", existsSync |-> <<schemaPath>>]
       ELSE call @@ [thrown |-> "", value |-> schemaPath,
                     existsSync |-> <<schemaPath>>]

\* resolveSchemaPath(project, ignoreMissing = false); existsSync: the paths it
\* was called with
resolveSchemaPath(files, project, ignoreMissing) ==
    LET schemaPath == resolve(project.dirpath, project.schema)
        call == [call |-> "resolveSchemaPath", ignoreMissing |-> ignoreMissing]
    IN IF project.schema = <<>>
       THEN call @@ [thrown |-> "Missing GraphQL schemaPath", existsSync |-> <<>>]
       ELSE IF ignoreMissing
       THEN call @@ [thrown |-> "", value |-> schemaPath, existsSync |-> <<>>]
       ELSE IF ~existsSync(files, schemaPath)
       THEN call @@ [thrown |-> "Schema not found", existsSync |-> <<schemaPath>>]
       ELSE call @@ [thrown |-> "", value |-> schemaPath,
                     existsSync |-> <<schemaPath>>]

\* the projects of the configuration file /cfg/.graphqlconfig
Dirpath == <<"/", "cfg">>
SchemaPaths == {<<>>, <<"schema.json">>, <<"/", "cfg", "lib", "a.graphql">>,
                <<"/", "abs", "schema.json">>}
IncludePatterns == {<<"app", "*">>, <<"**", "a.graphql">>,
                    <<"/", "cfg", "lib", "*">>}
ExcludePatterns == {<<"app", "b.graphql">>, <<"**", "a.graphql">>}
Includes == {Undefined, StringOf(<<"app", "*">>)}
            \cup {ArrayOf(patterns) : patterns \in SeqsUpTo(IncludePatterns, 2)}
Excludes == {Undefined, StringOf(<<"app", "b.graphql">>)}
            \cup {ArrayOf(patterns) : patterns \in SeqsUpTo(ExcludePatterns, 1)}
\* includes and excludes are what the earlier graphql-config makes of the
\* include and exclude of the file: arrays
GraphQLProjectConfig(schemaPath, include, exclude) ==
    [dirpath |-> Dirpath, schema |-> schemaPath,
     include |-> include, exclude |-> exclude,
     includes |-> toArray(include), excludes |-> toArray(exclude)]
Projects ==
    {GraphQLProjectConfig(schemaPath, include, exclude) :
        schemaPath \in SchemaPaths, include \in Includes, exclude \in Excludes}

ConfigInit ==
    /\ PrinterIdle /\ BuilderIdle /\ StacksIdle /\ FillIdle /\ WatchIdle
    /\ args \in [project : Projects, files : SUBSET Range(AllPaths)]
    /\ returned = NoCall

ResolveSchemaPath ==
    /\ \E ignoreMissing \in BOOLEAN :
          returned' = resolveSchemaPath(args.files, args.project, ignoreMissing)
    /\ UNCHANGED args
    /\ UNCHANGED notCallVars

GetGraphQLProjectIncludedFilePaths ==
    /\ returned' = getGraphQLProjectIncludedFilePaths(args.files, args.project)
    /\ UNCHANGED args
    /\ UNCHANGED notCallVars

EarlierGetGraphQLProjectIncludedFilePaths ==
    /\ returned' =
           earlier_getGraphQLProjectIncludedFilePaths(args.files, args.project)
    /\ UNCHANGED args
    /\ UNCHANGED notCallVars

ConfigNext ==
    \/ ResolveSchemaPath
    \/ GetGraphQLProjectIncludedFilePaths
    \/ EarlierGetGraphQLProjectIncludedFilePaths

ConfigSpec == ConfigInit /\ [][ConfigNext]_vars

(***************************************************************************)
(* graphql-validate-fixtures/src/index.ts: evaluateFixture.  getOperation, *)
(* MissingOperationError and validateFixtureAgainstAST are those of        *)
(* ./validate, modelled by what index.ts takes from them.                  *)
(***************************************************************************)
MaxProjects == 3

\* new MissingOperationError(operationName, ast): its operationNames are the
\* names of the operations of the AST
MissingOperationError(operationName, ast) ==
    [kind |-> "MissingOperationError",
     message |-> <<"Operation not found", operationName>>,
     operationNames |-> ast.operations]

\* getOperation(fixture, ast): the operation of the AST that has the name of
\* the fixture's operation, or a MissingOperationError thrown
getOperation(fixture, ast) ==
    IF \E k \in DOMAIN ast.operations : ast.operations[k] = fixture.operationName
    THEN [thrown |-> Undefined,
          operation |-> [kind |-> "Operation", operationName |-> fixture.operationName,
                        ast |-> ast.name],
          operationName |-> fixture.operationName]
    ELSE [thrown |-> MissingOperationError(fixture.operationName, ast)]

\* validateFixtureAgainstAST(fixture, ast): the Validation; ast is kept to
\* tell which AST the fixture was validated against
validateFixtureAgainstAST(fixture, ast) ==
    [fixturePath |-> fixture.path,
     validationErrors |->
         IF fixture.content = "valid" THEN <<>>
         ELSE <<[kind |-> "Error", message |-> <<"invalid", ast.name>>]>>,
     ast |-> ast.name]

\* projectOperations.map(({ast}) => { try { return {ast, ...getOperation(
\* fixture, ast)}; } catch (error) { return {ast, error, ...}; } })
fixtureOperationOf(ast, got) ==
    IF truthy(got.thrown)
    THEN [ast |-> ast, error |-> got.thrown, operation |-> Undefined,
          operationName |-> Undefined]
    ELSE [ast |-> ast, error |-> Undefined, operation |-> got.operation,
          operationName |-> got.operationName]

\* errors.reduce(...): the operation names of the missing-operation errors,
\* and the other errors
RECURSIVE reduceErrors(_)
reduceErrorsRest(error, rest) ==
    IF error.kind = "MissingOperationError"
    THEN [otherErrors |-> rest.otherErrors,
          operationNames |-> error.operationNames \o rest.operationNames]
    ELSE [otherErrors |-> <<error>> \o rest.otherErrors,
          operationNames |-> rest.operationNames]
reduceErrors(errors) ==
    IF errors = <<>> THEN [otherErrors |-> <<>>, operationNames |-> <<>>]
    ELSE reduceErrorsRest(Head(errors), reduceErrors(Tail(errors)))

\* mergeMissingOperationErrors(errors)
mergeMissingOperationErrors(errors) ==
    IF Len(errors) <= 1 THEN errors
    ELSE LET reduced == reduceErrors(errors)
         IN <<[kind |-> "Error",
               message |-> errors[1].message
                           \o <<"Available operations">> \o reduced.operationNames]>>
            \o reduced.otherErrors

\* a variant that validates against the first project that has the operation
evaluateFixtureOfFirst(fixture, projectOperations) ==
    LET fixtureOperations ==
            [k \in DOMAIN projectOperations |->
                fixtureOperationOf(projectOperations[k].ast,
                                   getOperation(fixture, projectOperations[k].ast))]
        validFixtureOperations ==
            SelectSeq(fixtureOperations,
                      LAMBDA o : truthy(o.operation) /\ ~truthy(o.error))
    IN IF Len(validFixtureOperations) = 0
       THEN [fixturePath |-> fixture.path,
             validationErrors |->
                 mergeMissingOperationErrors(
                     [k \in DOMAIN fixtureOperations |-> fixtureOperations[k].error]),
             ast |-> ""]
       ELSE validateFixtureAgainstAST(fixture, validFixtureOperations[1].ast)

\* evaluateFixture(fixture, projectOperations)
evaluateFixture(fixture, projectOperations) ==
    LET fixtureOperations ==
            [k \in DOMAIN projectOperations |->
                fixtureOperationOf(projectOperations[k].ast,
                                   getOperation(fixture, projectOperations[k].ast))]
        validFixtureOperations ==
            SelectSeq(fixtureOperations,
                      LAMBDA o : truthy(o.operation) /\ ~truthy(o.error))
        withOperation ==
            SelectSeq(fixtureOperations, LAMBDA o : truthy(o.operation))
        errors == [k \in DOMAIN withOperation |-> withOperation[k].error]
    IN IF Len(validFixtureOperations) > 1
       THEN [fixturePath |-> fixture.path,
             validationErrors |->
                 <<[kind |-> "Error",
                    message |-> <<"Ambiguous operation name",
                                  validFixtureOperations[1].operationName,
                                  fixture.path>>
                                \o [k \in DOMAIN projectOperations |->
                                       projectOperations[k].config.projectName]]>>,
             ast |-> ""]
       ELSE IF Len(validFixtureOperations) = 0
       THEN [fixturePath |-> fixture.path,
             validationErrors |->
                 mergeMissingOperationErrors(
                     IF Len(errors) = 0
                     THEN [k \in DOMAIN fixtureOperations |->
                              fixtureOperations[k].error]
                     ELSE errors),
             ast |-> ""]
       ELSE validateFixtureAgainstAST(fixture, validFixtureOperations[1].ast)

\* the projects of a configuration, with the operations of each, and fixtures
ProjectNames == <<"A", "B", "C", "D">>
OperationNamesOfProject == {<<>>, <<"Pets">>, <<"Shop">>, <<"Pets", "Shop">>}
ProjectOperations ==
    UNION {[1..n -> OperationNamesOfProject] : n \in 1..MaxProjects}
GraphQLProjectOperations(names) ==
    [k \in DOMAIN names |->
        [config |-> [projectName |-> ProjectNames[k]],
         ast |-> [name |-> ProjectNames[k], operations |-> names[k]]]]
Fixtures ==
    [path : {"Shop/fixture.json"}, operationName : {"Shop"},
     content : {"valid", "invalid"}]

FixtureInit ==
    /\ PrinterIdle /\ BuilderIdle /\ StacksIdle /\ FillIdle /\ WatchIdle
    /\ \E names \in ProjectOperations, fixture \in Fixtures :
           args = [projectOperations |-> GraphQLProjectOperations(names),
                   fixture |-> fixture]
    /\ returned = NoCall

EvaluateFixture ==
    /\ returned = NoCall
    /\ returned' = [call |-> "evaluateFixture",
                    evaluation |-> evaluateFixture(args.fixture,
                                                   args.projectOperations)]
    /\ UNCHANGED args
    /\ UNCHANGED notCallVars

FixtureNext == EvaluateFixture

FixtureSpec == FixtureInit /\ [][FixtureNext]_vars

(***************************************************************************)
(* graphql-fixtures/src/fill.ts: createFiller.  A filled value is kept by  *)
(* its shape: a scalar, a list of values, or an object with its keys in    *)
(* the order they are set.  A Field is an object that is shared by the     *)
(* cached Operation and the fill, so every function gives back, with its   *)
(* value, the field as the call left it.                                   *)
(***************************************************************************)
MaxFills == 3

ScalarValue == [kind |-> "scalar"]
NullValue == [kind |-> "null"]
ObjectValue(entries) == [kind |-> "object", entries |-> entries]
ListValue(items) == [kind |-> "list", items |-> items]

\* partialObject[field.responseName]
get(object, key) ==
    IF ~truthy(object) \/ object.kind # "object" THEN Undefined
    ELSE IF \E k \in DOMAIN object.entries : object.entries[k].key = key
    THEN object.entries[CHOOSE k \in DOMAIN object.entries :
                            /\ object.entries[k].key = key
                            /\ \A j \in (k + 1)..Len(object.entries) :
                                  object.entries[j].key # key].value
    ELSE Undefined

\* parentFields.indexOf(field)
indexOf(array, item) ==
    IF \E k \in DOMAIN array : array[k] = item
    THEN (CHOOSE k \in DOMAIN array :
              array[k] = item /\ \A j \in 1..(k - 1) : array[j] # item) - 1
    ELSE -1
\* String(number), for the numbers -1 .. 9
Digits == <<"0", "1", "2", "3", "4", "5", "6", "7", "8", "9">>
numberToString(n) == IF n < 0 THEN <<"-", Digits[1 - n]>> ELSE <<Digits[n + 1]>>

\* chooseNull(): faker is seeded with the key path of the field (withRandom);
\* the fields filled here are of non-null types, which never ask it
chooseNull == FALSE

\* createValue(partialValue, value, details), by shape
createValue(partialValue, value, type) ==
    IF ~truthy(partialValue)
    THEN IF isNonNullType(type) \/ ~chooseNull THEN value ELSE NullValue
    ELSE partialValue

RECURSIVE fillObject(_, _, _, _, _)
RECURSIVE fillFields(_, _, _, _, _)
RECURSIVE fillType(_, _, _, _, _, _)
RECURSIVE fillItems(_, _, _, _, _, _)

\* a variant of the list branch that leaves the field as it is and hands a
\* copy with the new responseName on
fillItemsOfCopy(type, field, array, parent, parentFields, context) ==
    [values |-> [k \in DOMAIN array |->
                    fillType(type,
                        [field EXCEPT !.responseName =
                            @ \o numberToString(indexOf(parentFields, field))],
                        array[k], parent, parentFields, context).value],
     field |-> field]

\* array.map((value) => fillType(unwrappedType.ofType, {...field,
\* responseName: (field.responseName += parentFields.indexOf(field))}, value,
\* parent, parentFields, context)): += assigns to the field itself; the copy
\* shares the field's array of fields
fillItemsReturns(first, rest) ==
    [values |-> <<first.value>> \o rest.values, field |-> rest.field]
fillItemsRest(type, field, filled, array, parent, parentFields, context) ==
    fillItemsReturns(filled,
        fillItems(type, [field EXCEPT !.fields = filled.field.fields],
                  Tail(array), parent, parentFields, context))
fillItemsFirst(type, field, array, parent, parentFields, context) ==
    fillItemsRest(type, field,
        fillType(type, field, Head(array), parent, parentFields, context),
        array, parent, parentFields, context)
fillItems(type, field, array, parent, parentFields, context) ==
    IF array = <<>> THEN [values |-> <<>>, field |-> field]
    ELSE fillItemsFirst(type,
             [field EXCEPT !.responseName =
                 @ \o numberToString(indexOf(parentFields, field))],
             array, parent, parentFields, context)

\* fillType(type, field, partial, parent, parentFields, context); the
\* operations filled here select no field of an abstract type
fillTypeOfList(filled) ==
    [value |-> ListValue(filled.values), field |-> filled.field]
fillTypeOfObject(filled, partial, type) ==
    [value |-> createValue(IF ~truthy(partial) THEN Undefined ELSE filled.value,
                           filled.value, type),
     field |-> filled.ownField]
fillType(type, field, partial, parent, parentFields, context) ==
    LET unwrappedType == IF isNonNullType(type) THEN type.ofType ELSE type
    IN IF field.fieldName = typenameName
       THEN [value |-> ScalarValue, field |-> field]
       ELSE IF isEnumType(unwrappedType) \/ isScalarType(unwrappedType)
       THEN [value |-> createValue(partial, ScalarValue, type), field |-> field]
       ELSE IF isListType(unwrappedType)
       THEN fillTypeOfList(
                fillItems(unwrappedType.ofType, field,
                          createValue(partial, ListValue(<<>>), type).items,
                          parent, parentFields, context))
       ELSE fillTypeOfObject(
                fillObject(unwrappedType, parent, Append(parentFields, field),
                           partial, context),
                partial, type)

\* fields.reduce((filledObject, field) => ({...filledObject,
\* [field.responseName]: fillType(...)}), starter): the key is read before
\* fillType is called
fillFieldsReturns(key, filled, rest) ==
    [entries |-> <<[key |-> key, value |-> filled.value]>> \o rest.entries,
     fields |-> <<filled.field>> \o rest.fields]
fillFieldsRest(fields, filled, partialObject, type, parentFields, context) ==
    fillFieldsReturns(Head(fields).responseName, filled,
        fillFields(Tail(fields), partialObject, type, parentFields, context))
fillFields(fields, partialObject, type, parentFields, context) ==
    IF fields = <<>> THEN [entries |-> <<>>, fields |-> <<>>]
    ELSE fillFieldsRest(fields,
             fillType(Head(fields).type, Head(fields),
                      get(partialObject, Head(fields).responseName),
                      type, parentFields, context),
             partialObject, type, parentFields, context)

\* fillObject(type, parent, parentFields, partial, context), without
\* resolvers of object types
fillObjectReturns(type, ownField, filled, context) ==
    [value |-> ObjectValue(
                   (IF context.options.addTypename
                    THEN <<[key |-> typenameName, value |-> ScalarValue]>>
                    ELSE <<>>) \o filled.entries),
     ownField |-> [ownField EXCEPT !.fields = filled.fields]]
fillObject(type, parent, parentFields, partial, context) ==
    LET ownField == parentFields[Len(parentFields)]
    IN fillObjectReturns(type, ownField,
           fillFields(ownField.fields, partial, type,
                      IF "operationType" \in DOMAIN ownField THEN <<>>
                      ELSE parentFields,
                      context),
           context)

\* compile(schema, document) and Object.values(ast.operations)[0]
compileFirstOperation(document) == document.operation

\* fill(document, data) of createFiller: what it returns, and the Operation
\* of the document as it is in documentToOperation afterwards
fillReturns(filled) == [value |-> filled.value, operation |-> filled.ownField]
fill(cache, document, data, context) ==
    LET operation == IF document.id \in DOMAIN cache THEN cache[document.id]
                     ELSE compileFirstOperation(document)
    IN fillReturns(fillObject(operation.rootType, operation.rootType,
                              <<operation>>, data, context))

\* type Query { name: String!, pets: [Pet!]! }
\* type Pet { name: String!, toys: [String!]! }
Pet == GraphQLObjectType(<<"P","e","t">>)
toysStr == <<"t","o","y","s">>
toysField == Scalar(toysStr, toysStr,
                    GraphQLNonNull(GraphQLList(GraphQLNonNull(GraphQLString))), FALSE)
petsOf(fields) ==
    Field(petsStr, petsStr, GraphQLNonNull(GraphQLList(GraphQLNonNull(Pet))),
          FALSE, fields, <<>>)
QueryOf(fields) == Operation("query", <<>>, fields) @@ [rootType |-> Query]
Documents ==
    {[id |-> "name", operation |-> QueryOf(<<nameField>>)],
     [id |-> "pets", operation |-> QueryOf(<<petsOf(<<nameField>>)>>)],
     [id |-> "toys", operation |-> QueryOf(<<nameField, petsOf(<<nameField, toysField>>)>>)]}
\* the partial data: nothing, or an object with a name, with pets, with toys
petsData(items) ==
    ObjectValue(<<[key |-> petsStr, value |-> ListValue(items)]>>)
toysData(items) ==
    ObjectValue(<<[key |-> toysStr, value |-> ListValue(items)]>>)
PartialData ==
    {Undefined, ObjectValue(<<>>),
     ObjectValue(<<[key |-> nameStr, value |-> ScalarValue]>>),
     petsData(<<>>), petsData(<<ObjectValue(<<>>)>>),
     petsData(<<ObjectValue(<<>>), ObjectValue(<<>>)>>),
     petsData(<<toysData(<<ScalarValue>>)>>),
     petsData(<<toysData(<<ScalarValue>>), toysData(<<ScalarValue, ScalarValue>>)>>)}

\* createFiller(schema, {addTypename}): an empty WeakMap
FillInit ==
    /\ PrinterIdle /\ BuilderIdle /\ StacksIdle /\ WatchIdle
    /\ args \in [document : Documents, data : PartialData,
                 context : [options : [addTypename : BOOLEAN]]]
    /\ documentToOperation = <<>>
    /\ returned = <<>>

\* fill(document, data), once more with the same document and data
Fill ==
    /\ Len(returned) < MaxFills
    /\ LET filled == fill(documentToOperation, args.document, args.data,
                          args.context)
       IN /\ returned' = Append(returned, filled.value)
          /\ documentToOperation' =
                 (args.document.id :> filled.operation) @@ documentToOperation
    /\ UNCHANGED args
    /\ UNCHANGED notFillVars

FillNext == Fill

FillSpec == FillInit /\ [][FillNext]_vars

(***************************************************************************)
(* The Builder in watch mode (src/unnamed/part_000, 400-711 and 763-804).  *)
(* The contents of a file are a sequence of tokens: whitespace,            *)
(* definitions, or a token no GraphQL document holds.  A Map is the        *)
(* sequence of its entries in the order of insertion.  A handler runs to   *)
(* its end before the next one starts, so each is one action.  The Builder *)
(* is an EventEmitter: emit('error', ...) throws where no 'error'          *)
(* listener is registered, and events holds the events that were taken.    *)
(***************************************************************************)
MaxEvents == 2

WhiteSpace == [kind |-> "whitespace"]
Malformed  == [kind |-> "malformed"]
\* compiles: compile() takes the definition; prints: printDocument() does
OperationDefinition(name, compiles, prints) ==
    [kind |-> "OperationDefinition", name |-> name, compiles |-> compiles,
     prints |-> prints]
FragmentDefinition_(name) ==
    [kind |-> "FragmentDefinition", name |-> name, compiles |-> TRUE,
     prints |-> TRUE]

\* contents.trim()
RECURSIVE trimStart(_)
trimStart(text) ==
    IF text # <<>> /\ Head(text) = WhiteSpace THEN trimStart(Tail(text)) ELSE text
RECURSIVE trimEnd(_)
trimEnd(text) ==
    IF text # <<>> /\ text[Len(text)] = WhiteSpace
    THEN trimEnd(SubSeq(text, 1, Len(text) - 1)) ELSE text
trim(text) == trimEnd(trimStart(text))

\* parse(new Source(contents, filePath)): the document, or a GraphQLError
parse(text, filePath) ==
    IF \E k \in DOMAIN text : text[k] = Malformed
    THEN [thrown |-> TRUE, error |-> [message |-> "Syntax Error", filePath |-> filePath]]
    ELSE [thrown |-> FALSE,
          document |-> [definitions |-> SelectSeq(text, LAMBDA token : token # WhiteSpace),
                        filePath |-> filePath]]

\* Map: has, get, set, delete
mapHas(map, key) == \E k \in DOMAIN map : map[k].key = key
mapGet(map, key) == map[CHOOSE k \in DOMAIN map : map[k].key = key].value
mapSet(map, key, value) ==
    IF mapHas(map, key)
    THEN [k \in DOMAIN map |->
             IF map[k].key = key THEN [key |-> key, value |-> value] ELSE map[k]]
    ELSE Append(map, [key |-> key, value |-> value])
mapDelete(map, key) == SelectSeq(map, LAMBDA entry : entry.key # key)
mapValues(map) == [k \in DOMAIN map |-> map[k].value]

\* the events
startDocs   == [event |-> "start:docs"]
endDocs     == [event |-> "end:docs"]
startSchema == [event |-> "start:schema"]
endSchema   == [event |-> "end:schema"]
errorOf(error) == [event |-> "error", error |-> error]
buildDocs(documentPath) == [event |-> "build:docs", documentPath |-> documentPath]

\* a variant that forgets the document of a file that holds nothing
updateDocumentForFileOfDelete(map, files, filePath, projectName) ==
    LET withProject == IF mapHas(map, projectName) THEN map
                       ELSE mapSet(map, projectName, <<>>)
        documents == mapGet(withProject, projectName)
        parsed == parse(files[filePath].text, filePath)
    IN IF ~files[filePath].exists
       THEN [thrown |-> TRUE, map |-> withProject,
             error |-> [message |-> "ENOENT", filePath |-> filePath]]
       ELSE IF Len(trim(files[filePath].text)) = 0
       THEN [thrown |-> FALSE,
             map |-> mapSet(withProject, projectName, mapDelete(documents, filePath))]
       ELSE IF parsed.thrown
       THEN [thrown |-> TRUE, map |-> withProject, error |-> parsed.error]
       ELSE [thrown |-> FALSE,
             map |-> mapSet(withProject, projectName,
                            mapSet(documents, filePath, parsed.document))]

\* updateDocumentForFile(filePath, project): the cache afterwards, and
\* whether readFileSync or parse threw
updateDocumentForFile(map, files, filePath, projectName) ==
    LET withProject == IF mapHas(map, projectName) THEN map
                       ELSE mapSet(map, projectName, <<>>)
        documents == mapGet(withProject, projectName)
        parsed == parse(files[filePath].text, filePath)
    IN IF ~files[filePath].exists
       THEN [thrown |-> TRUE, map |-> withProject,
             error |-> [message |-> "ENOENT", filePath |-> filePath]]
       ELSE IF Len(trim(files[filePath].text)) = 0
       THEN [thrown |-> FALSE, map |-> withProject]
       ELSE IF parsed.thrown
       THEN [thrown |-> TRUE, map |-> withProject, error |-> parsed.error]
       ELSE [thrown |-> FALSE,
             map |-> mapSet(withProject, projectName,
                            mapSet(documents, filePath, parsed.document))]

\* the definitions of the documents of a project, each with its file
definitionsOf(documents) ==
    join([k \in DOMAIN documents |->
             [d \in DOMAIN documents[k].value.definitions |->
                 [filePath |-> documents[k].key,
                  definition |-> documents[k].value.definitions[d]]]])

isOperationDefinition(definition) == definition.kind = "OperationDefinition"

\* a variant that looks at the fragment definitions too
getDuplicateProjectOperationsAndFragments(documents) ==
    LET declared == definitionsOf(documents)
        first == SelectSeq([k \in DOMAIN declared |-> k],
                     LAMBDA k : \A j \in 1..(k - 1) :
                         declared[j].definition.name # declared[k].definition.name)
        filePathsOf(name) ==
            {declared[k].filePath : k \in {j \in DOMAIN declared :
                                             declared[j].definition.name = name}}
        all == [k \in DOMAIN first |->
                   [operationName |-> declared[first[k]].definition.name,
                    filePaths |-> filePathsOf(declared[first[k]].definition.name)]]
    IN SelectSeq(all, LAMBDA entry : Cardinality(entry.filePaths) > 1)

\* getDuplicateProjectOperations(documents): the names, in the order they
\* are met, of the operations declared in more than one file; the Set of
\* file paths is kept as a set, the message sorts it
getDuplicateProjectOperations(documents) ==
    LET declared == SelectSeq(definitionsOf(documents),
                        LAMBDA d : isOperationDefinition(d.definition))
        first == SelectSeq([k \in DOMAIN declared |-> k],
                     LAMBDA k : \A j \in 1..(k - 1) :
                         declared[j].definition.name # declared[k].definition.name)
        filePathsOf(name) ==
            {declared[k].filePath : k \in {j \in DOMAIN declared :
                                             declared[j].definition.name = name}}
        all == [k \in DOMAIN first |->
                   [operationName |-> declared[first[k]].definition.name,
                    filePaths |-> filePathsOf(declared[first[k]].definition.name)]]
    IN SelectSeq(all, LAMBDA entry : Cardinality(entry.filePaths) > 1)

\* getDuplicateOperations(documentsMapByProject)
getDuplicateOperations(map) ==
    [k \in DOMAIN map |->
        [projectName |-> map[k].key,
         duplicates |-> getDuplicateProjectOperations(map[k].value)]]

\* the 'error' events of the duplicates of generateDocumentTypes
duplicateErrors(map) ==
    LET found == getDuplicateOperations(map)
    IN join([k \in DOMAIN found |->
                [d \in DOMAIN found[k].duplicates |->
                    errorOf([message |-> "GraphQL operations must have a unique name",
                             operationName |-> found[k].duplicates[d].operationName,
                             filePaths |-> found[k].duplicates[d].filePaths,
                             projectName |-> found[k].projectName])]])

\* Object.values(operations), Object.values(fragments): the AST keeps one
\* definition under a name, the last one declared, at the place of the first
valuesByName(items) ==
    LET first == SelectSeq([k \in DOMAIN items |-> k],
                     LAMBDA k : \A j \in 1..(k - 1) :
                         items[j].definition.name # items[k].definition.name)
        last(name) == CHOOSE k \in DOMAIN items :
                         /\ items[k].definition.name = name
                         /\ \A j \in (k + 1)..Len(items) : items[j].definition.name # name
    IN [k \in DOMAIN first |-> items[last(items[first[k]].definition.name)]]

\* groupOperationsAndFragmentsByFile(ast): the files of the operations, then
\* those of the fragments, each once
groupOperationsAndFragmentsByFile(documents) ==
    LET declared == definitionsOf(documents)
        items == valuesByName(SelectSeq(declared,
                                  LAMBDA d : isOperationDefinition(d.definition)))
                 \o valuesByName(SelectSeq(declared,
                                     LAMBDA d : ~isOperationDefinition(d.definition)))
        first == SelectSeq([k \in DOMAIN items |-> k],
                     LAMBDA k : \A j \in 1..(k - 1) :
                         items[j].filePath # items[k].filePath)
    IN [k \in DOMAIN first |->
           [path |-> items[first[k]].filePath,
            prints |-> \A j \in DOMAIN items :
                          items[j].filePath = items[first[k]].filePath
                          => items[j].definition.prints]]

\* this.emit('error', error), one error after the other: the events taken,
\* and whether emit threw
emitErrors(listens, errors) ==
    IF errors = <<>> \/ listens
    THEN [events |-> errors, thrown |-> FALSE]
    ELSE [events |-> <<>>, thrown |-> TRUE]

\* for (const file of fileMap.values()) this.writeDocumentFile(...), in a
\* try whose catch is a noop: getDocumentDefinition emits the error of
\* printDocument and throws, and what is thrown ends the loop
RECURSIVE writeDocumentFiles(_, _)
writeDocumentFiles(listens, files) ==
    IF files = <<>> THEN <<>>
    ELSE IF ~Head(files).prints
    THEN emitErrors(listens,
             <<errorOf([message |-> "Error in", filePath |-> Head(files).path])>>).events
    ELSE <<buildDocs(Head(files).path)>> \o writeDocumentFiles(listens, Tail(files))

\* generateDocumentTypesForProject(projectConfig, documents): the events
\* taken, and whether the emit of the catch of compile() threw
generateDocumentTypesForProject(listens, projectName, documents) ==
    LET declared == definitionsOf(documents)
    IN IF \E k \in DOMAIN declared : ~declared[k].definition.compiles
       THEN emitErrors(listens,
                <<errorOf([message |-> "compile", projectName |-> projectName])>>)
       ELSE [events |-> writeDocumentFiles(listens,
                            groupOperationsAndFragmentsByFile(documents)),
             thrown |-> FALSE]

\* for (const [projectName, documents] of this.documentMapByProject.entries())
RECURSIVE generateProjects(_, _)
generateProjectsRest(generated, rest) ==
    IF generated.thrown THEN generated
    ELSE [events |-> generated.events \o rest.events, thrown |-> rest.thrown]
generateProjects(listens, map) ==
    IF map = <<>> THEN [events |-> <<>>, thrown |-> FALSE]
    ELSE generateProjectsRest(
             generateDocumentTypesForProject(listens, Head(map).key, Head(map).value),
             generateProjects(listens, Tail(map)))

generateDocumentTypesReturns(duplicates, generated) ==
    IF duplicates.thrown THEN [events |-> <<startDocs>>, thrown |-> TRUE]
    ELSE IF generated.thrown
    THEN [events |-> <<startDocs>> \o duplicates.events \o generated.events,
          thrown |-> TRUE]
    ELSE [events |-> <<startDocs>> \o duplicates.events \o generated.events
                     \o <<endDocs>>,
          thrown |-> FALSE]

\* a variant after the generateDocumentTypes of the earlier Builder, which
\* returns where compile() throws
generateDocumentTypesOfEarlier(listens, map) ==
    LET passed == generateDocumentTypesReturns(
                      emitErrors(listens, duplicateErrors(map)),
                      generateProjects(listens, map))
    IN IF \E k \in DOMAIN map : \E d \in DOMAIN definitionsOf(map[k].value) :
              ~definitionsOf(map[k].value)[d].definition.compiles
       THEN [events |-> SelectSeq(passed.events, LAMBDA e : e # endDocs),
             thrown |-> passed.thrown]
       ELSE passed

\* generateDocumentTypes(): the events taken, and whether an emit threw
generateDocumentTypes(listens, map) ==
    generateDocumentTypesReturns(
        emitErrors(listens, duplicateErrors(map)),
        generateProjects(listens, map))

\* the files the watchers of the two projects look at
WatchPaths == <<"A/a.graphql", "A/b.graphql", "B/c.graphql">>
projectNameOf(filePath) == IF filePath = "B/c.graphql" THEN "B" ELSE "A"
NoSuchFile == [exists |-> FALSE, text |-> <<>>]
FileOf(text) == [exists |-> TRUE, text |-> text]
Texts ==
    {<<>>, <<WhiteSpace>>, <<Malformed>>,
     <<OperationDefinition("Pets", TRUE, TRUE)>>,
     <<WhiteSpace, OperationDefinition("Shop", TRUE, TRUE)>>,
     <<OperationDefinition("Bad", FALSE, TRUE)>>,
     <<OperationDefinition("Odd", TRUE, FALSE)>>,
     <<FragmentDefinition_("Toy"), WhiteSpace>>}

\* new Builder(options): no document yet; the files on disk hold nothing or
\* the query Pets; the caller has registered an 'error' listener, or not
WatchInit ==
    /\ PrinterIdle /\ BuilderIdle /\ StacksIdle /\ CallsIdle /\ FillIdle
    /\ contents \in [Range(WatchPaths) ->
                        {NoSuchFile, FileOf(<<OperationDefinition("Pets", TRUE, TRUE)>>)}]
    /\ documentMapByProject = <<>>
    /\ events = <<>>
    /\ handled = 0
    /\ listening \in BOOLEAN
    /\ exited = FALSE

\* updateDocumentsForProject of every project, file by file
RECURSIVE updateDocuments(_, _, _)
updateDocumentsRest(updated, files, filePaths) ==
    IF updated.thrown THEN updated
    ELSE updateDocuments(updated.map, files, Tail(filePaths))
updateDocuments(map, files, filePaths) ==
    IF filePaths = <<>> THEN [thrown |-> FALSE, map |-> map]
    ELSE updateDocumentsRest(
             updateDocumentForFile(map, files, Head(filePaths),
                                   projectNameOf(Head(filePaths))),
             files, filePaths)

\* what a handler does after its update of the cache: the error of the
\* update is emitted, or the document types are generated
afterUpdate(listens, updated) ==
    IF updated.thrown THEN emitErrors(listens, <<errorOf(updated.error)>>)
    ELSE generateDocumentTypes(listens, updated.map)

\* run({watch: true}), with schemas that print; where an emit throws, the
\* promise of run() is rejected: the caller ends the process, or catches the
\* rejection and leaves the watchers at work
Run ==
    /\ events = <<>>
    /\ LET updated == updateDocuments(documentMapByProject, contents,
                          SelectSeq(WatchPaths, LAMBDA path : contents[path].exists))
           after == afterUpdate(listening, updated)
       IN /\ documentMapByProject' = updated.map
          /\ events' = <<startSchema, endSchema>> \o after.events
          /\ exited' \in {FALSE, after.thrown}
    /\ UNCHANGED <<contents, handled, listening>>
    /\ UNCHANGED notWatchVars

\* update(filePath, projectConfig) of setupDocumentWatchers; nothing catches
\* what an emit throws, and the process ends
update(filePath) ==
    LET updated == updateDocumentForFile(documentMapByProject, contents', filePath,
                                         projectNameOf(filePath))
        after == afterUpdate(listening, updated)
    IN /\ documentMapByProject' = updated.map
       /\ events' = events \o after.events
       /\ exited' = after.thrown

\* a file is written where there was none: .on('add', ...)
watchAdd ==
    /\ events # <<>> /\ ~exited /\ handled < MaxEvents
    /\ \E filePath \in Range(WatchPaths), text \in Texts :
          /\ ~contents[filePath].exists
          /\ contents' = [contents EXCEPT ![filePath] = FileOf(text)]
          /\ update(filePath)
    /\ handled' = handled + 1
    /\ UNCHANGED listening
    /\ UNCHANGED notWatchVars

\* a file is written over: .on('change', ...)
watchChange ==
    /\ events # <<>> /\ ~exited /\ handled < MaxEvents
    /\ \E filePath \in Range(WatchPaths), text \in Texts :
          /\ contents[filePath].exists
          /\ contents' = [contents EXCEPT ![filePath] = FileOf(text)]
          /\ update(filePath)
    /\ handled' = handled + 1
    /\ UNCHANGED listening
    /\ UNCHANGED notWatchVars

\* a file is removed: .on('unlink', ...)
watchUnlink ==
    /\ events # <<>> /\ ~exited /\ handled < MaxEvents
    /\ \E filePath \in Range(WatchPaths) :
          /\ contents[filePath].exists
          /\ contents' = [contents EXCEPT ![filePath] = NoSuchFile]
          /\ LET projectName == projectNameOf(filePath)
                 map == IF mapHas(documentMapByProject, projectName)
                        THEN mapSet(documentMapByProject, projectName,
                                 mapDelete(mapGet(documentMapByProject, projectName),
                                           filePath))
                        ELSE documentMapByProject
                 after == generateDocumentTypes(listening, map)
             IN /\ documentMapByProject' = map
                /\ events' = events \o after.events
                /\ exited' = after.thrown
    /\ handled' = handled + 1
    /\ UNCHANGED listening
    /\ UNCHANGED notWatchVars

\* the schema is written over: update(schemaPath) of setupSchemaWatcher,
\* whose catch is a noop
watchSchemaChange ==
    /\ events # <<>> /\ ~exited /\ handled < MaxEvents
    /\ events' = events \o <<startSchema, endSchema>>
                 \o generateDocumentTypes(listening, documentMapByProject).events
    /\ handled' = handled + 1
    /\ UNCHANGED <<contents, documentMapByProject, listening, exited>>
    /\ UNCHANGED notWatchVars

WatchNext ==
    \/ Run
    \/ watchAdd
    \/ watchChange
    \/ watchUnlink
    \/ watchSchemaChange

WatchSpec == WatchInit /\ [][WatchNext]_vars


(***************************************************************************)
(* What the properties below are stated about: the calls the printer made  *)
(* (printed.history) and the statements it generated (printed.code).       *)
(***************************************************************************)
Printed == pc # "init"

Calls(call) ==
    {i \in DOMAIN printed.history : printed.history[i].call = call}
Call(i) == printed.history[i]

\* the interfaces of the generated code: those of the namespaces and the
\* exported ones
Statements(kind) ==
    {i \in DOMAIN printed.code : printed.code[i].statement = kind}
EmittedBodies ==
    {printed.code[i].body : i \in Statements("export interface")}
    \cup UNION {{printed.code[i].body[j].body : j \in DOMAIN printed.code[i].body} :
                  i \in Statements("export namespace")}

Keys(body) == [k \in DOMAIN body |-> body[k].key]
Occurrences(body, key) == Cardinality({k \in DOMAIN body : body[k].key = key})

isNullable(type) ==
    /\ isTSUnionType(type)
    /\ Len(type.types) = 2
    /\ type.types[2] = tsNullKeyword
withoutNull(type) == IF isNullable(type) THEN type.types[1] ELSE type

isAbstractType(graphQLType) ==
    isInterfaceType(graphQLType) \/ isUnionType(graphQLType)

\* the fields of a selection list that are the first with their responseName
FirstOccurrences(fields) ==
    SelectSeq([i \in DOMAIN fields |-> [field |-> fields[i], index |-> i]],
              LAMBDA x : \A j \in 1..(x.index - 1) :
                            fields[j].responseName # x.field.responseName)

\* the properties of a body that print its fields (not an added __typename)
FieldProperties(e) == IF e.addedTypename THEN Tail(e.body) ELSE e.body

(***************************************************************************)
(* C1: a field of interface or union type with inline fragments gets a     *)
(* union type whose members are those of the fragments, in their order,    *)
(* followed by one Other member exactly when some possible type of the     *)
(* schema is in no fragment's possibleTypes; the Other interface is        *)
(* printed for exactly those types, so every possible type is covered.     *)
(***************************************************************************)
PossibleTypes(e) == Range(getPossibleTypes([schema |-> schema], e.graphQLType))
CoveredTypes(e) ==
    UNION {Range(e.field.inlineFragments[i].possibleTypes) :
             i \in DOMAIN e.field.inlineFragments}
AbstractWithFragments ==
    {i \in Calls("tsTypeForObjectField") :
        /\ Len(Call(i).field.inlineFragments) > 0
        /\ isAbstractType(Call(i).graphQLType)}

OnBallOnly(e) ==
    /\ e.graphQLType = Object
    /\ getPossibleTypes([schema |-> schema], Object) = <<Ball>>
    /\ Len(e.field.inlineFragments) = 1
    /\ e.field.inlineFragments[1].typeCondition = Ball

C2_OtherWhenFullyCovered ==
    \A i \in Calls("tsTypeForObjectField") :
        OnBallOnly(Call(i)) =>
            /\ Len(Call(i).type.types) = 2
            /\ Call(i).type.types[1].name = ucFirst(objectStr) \o Ball.name
            /\ Call(i).type.types[2].name = ucFirst(objectStr) \o OtherName

C2_Witness ==
    /\ pc = "printDocument"
    /\ \E i \in Calls("tsTypeForObjectField") :
          /\ OnBallOnly(Call(i))
          /\ ~Call(i).partial
          /\ Call(i).type = tsUnionType(<<tsQualifiedName(typeName(
                 [operation |-> file.operation,
                  options |-> [partial |-> FALSE]]), ucFirst(objectStr) \o Ball.name)>>)

(***************************************************************************)
(* C3: in the full output the property of a conditional field is optional  *)
(* and its type is unioned with null, and below the outermost type every   *)
(* level (the elements of a list) has the nullability of the schema.  One  *)
(* property is outside this: a conditional __typename printed by printFile *)
(* below the root is optional, but its type is the literal alone.          *)
(***************************************************************************)
RECURSIVE hasSchemaNullability(_, _)
\* type, printed for graphQLType at a level below the outermost one, is
\* unioned with null exactly when graphQLType is nullable, and so on inside
elementsHaveSchemaNullability(unwrappedGraphQLType, type) ==
    isListType(unwrappedGraphQLType) =>
        /\ type.k = "array"
        /\ hasSchemaNullability(
               unwrappedGraphQLType.ofType,
               IF type.elementType.k = "parenthesized"
               THEN type.elementType.typeAnnotation ELSE type.elementType)

hasSchemaNullability(graphQLType, type) ==
    IF isNonNullType(graphQLType)
    THEN /\ ~isNullable(type)
         /\ elementsHaveSchemaNullability(graphQLType.ofType, type)
    ELSE /\ isNullable(type)
         /\ elementsHaveSchemaNullability(graphQLType, withoutNull(type))

ConditionalInFull ==
    {i \in Calls("tsPropertyForField") :
        Call(i).field.isConditional /\ ~Call(i).partial}

isOptionalAndNullable(e) ==
    /\ e.property.optional
    /\ isNullable(e.property.typeAnnotation)
    /\ elementsHaveSchemaNullability(unwrap(e.field.type),
                                     withoutNull(e.property.typeAnnotation))

\* the __typename branch of print2's tsPropertyForField
isTypenameOfPrintFile(e) ==
    /\ pc = "printFile"
    /\ e.field.fieldName = typenameName
    /\ truthy(e.parentType)

\* the claim as stated: every conditional field, of either printer
C3_ConditionalOptionalAndNullable ==
    \A i \in ConditionalInFull : isOptionalAndNullable(Call(i))

C3_ConditionalOptionalNullableButTypename ==
    \A i \in ConditionalInFull :
        IF isTypenameOfPrintFile(Call(i))
        THEN /\ Call(i).property.optional
             /\ Call(i).property.typeAnnotation
                   = tsTypenameForGraphQLType(Call(i).parentType)
        ELSE isOptionalAndNullable(Call(i))

\* a conditional non-null list of non-null elements, printed by both printers
C3_Witness ==
    \E i \in ConditionalInFull :
        /\ Call(i).field = tagsConditional
        /\ Call(i).property =
               tsPropertySignature(
                   tagsStr,
                   tsUnionType(<<tsArrayType(tsStringKeyword), tsNullKeyword>>),
                   TRUE)

(***************************************************************************)
(* C4: every interface body tsInterfaceBodyForObjectField builds (all the  *)
(* bodies of printDocument's output; those of printFile's but the          *)
(* operation's own interface) has each responseName once, and its          *)
(* properties are those of the fields that are the first of the selection  *)
(* list with their responseName, in the order of the list.  printFile maps *)
(* the root fields without the filter.                                     *)
(***************************************************************************)
NoRepeatedKey(body) ==
    \A k, l \in DOMAIN body : body[k].key = body[l].key => k = l

isPropertyOf(e, field, property) ==
    \E j \in Calls("tsPropertyForField") :
        /\ Call(j).field = field
        /\ Call(j).stackName = e.stackName
        /\ Call(j).partial = e.partial
        /\ Call(j).parentType = e.graphQLType
        /\ Call(j).property = property

C5_NamespaceNamesDiffer ==
    \A i \in Statements("export namespace") :
        \A k, l \in DOMAIN printed.code[i].body :
            printed.code[i].body[k].id = printed.code[i].body[l].id => k = l

\* self { partner { name } } next to selfPartner { name }
C5_Witness ==
    /\ pc = "printDocument"
    /\ truthy(file.operation)
    /\ file.operation.fields
          = <<selfField(FALSE, <<partnerField(<<nameField>>)>>), selfPartnerField>>
    /\ \E i \in Statements("export namespace") :
          \E k, l \in DOMAIN printed.code[i].body :
              /\ k < l
              /\ printed.code[i].body[k].id = ucFirst(selfPartnerStr)
              /\ printed.code[i].body[l].id = ucFirst(selfPartnerStr)

(***************************************************************************)
(* C6: the interface exported for a composite field without inline         *)
(* fragments is named by the capitalized responseNames of the path to the  *)
(* field followed by the name of the field's GraphQL type, an interface of *)
(* that name is in the namespace, and the field's type refers to it.       *)
(***************************************************************************)
ExportedNames ==
    UNION {{printed.code[i].body[j].id : j \in DOMAIN printed.code[i].body} :
             i \in Statements("export namespace")}

WithoutFragments ==
    {i \in Calls("tsTypeForObjectField") :
        Len(Call(i).field.inlineFragments) = 0}

C6_NamedByPathAndType ==
    \A i \in WithoutFragments :
        /\ Call(i).type.name = Call(i).stackName \o Call(i).graphQLType.name
        /\ Call(i).type.name \in ExportedNames

\* query Details { self { name } }: the interface is named Self
C6_Witness ==
    /\ pc = "printFile"
    /\ \E i \in WithoutFragments :
          /\ Call(i).field = selfField(FALSE, <<nameField>>)
          /\ Call(i).graphQLType = Person
          /\ Call(i).type.name = ucFirst(selfStr)
          /\ ucFirst(selfStr) \in ExportedNames

(***************************************************************************)
(* C7: a __typename field is typed as the literal of the name of the       *)
(* enclosing object type, the operation's root type included, and in an    *)
(* Other interface as the union of the literals of the possible types no   *)
(* inline fragment covers (apart from a union with null where the          *)
(* property is optional).                                                  *)
(***************************************************************************)
TypenameLiteralOf(graphQLType) ==
    IF isArray(graphQLType)
    THEN tsUnionType([k \in DOMAIN graphQLType.types |->
                         tsLiteralType(graphQLType.types[k].name)])
    ELSE tsLiteralType(graphQLType.name)

TypenameProperties ==
    {i \in Calls("tsPropertyForField") : Call(i).field.fieldName = typenameName}

\* the type a property is printed in: the parent type the printer was given,
\* and at the root of printFile, which gives none, the operation's root type
EnclosingType(e) ==
    IF truthy(e.parentType) THEN e.parentType
    ELSE IF e.stackName = <<>> /\ truthy(file.operation)
    THEN getRootType(file.operation, [schema |-> schema])
    ELSE Undefined

C7_TypenameIsLiteral ==
    \A i \in TypenameProperties :
        LET e == Call(i)
            enclosing == EnclosingType(e)
        IN /\ isObjectType(enclosing) \/ isArray(enclosing) =>
                 withoutNull(e.property.typeAnnotation)
                     = TypenameLiteralOf(enclosing)
           /\ isArray(enclosing) =>
                 \E j \in AbstractWithFragments :
                     /\ Call(j).stackName = e.stackName
                     /\ Range(enclosing.types)
                           = PossibleTypes(Call(j)) \ CoveredTypes(Call(j))

\* query Details { __typename } printed by printFile
C7_Witness ==
    /\ pc = "printFile"
    /\ \E i \in TypenameProperties :
          /\ Call(i).field = typenameSelected
          /\ Call(i).stackName = <<>>
          /\ EnclosingType(Call(i)) = Query
          /\ Call(i).property =
                 tsPropertySignature(typenameName, tsStringKeyword, FALSE)

(***************************************************************************)
(* C8: with addTypename, every interface body tsInterfaceBodyForObjectField*)
(* builds has exactly one property named __typename; where the selection   *)
(* list has no field of that responseName it is an added one, the first    *)
(* property of the body, required in the full output and in the inline     *)
(* fragment and Other interfaces of the partial output, optional in the    *)
(* other interfaces of the partial output.  A __typename selected under an *)
(* alias does not stand for it.  printFile's interface of the operation is *)
(* not built that way: its properties are those of the root fields alone.  *)
(***************************************************************************)
selectsTypenameHere(e) ==
    \E k \in DOMAIN e.fields : e.fields[k].responseName = typenameName

\* the interface printFile exports for the operation
RootInterfaceOfPrintFile ==
    printed.code[CHOOSE i \in Statements("export interface") : TRUE]

PrintFilePrinted == pc = "printFile" /\ printed.thrown = ""

\* the claim as stated: the added __typename is required and first in every
\* interface, that of the operation included
C8_EveryInterfaceGetsRequiredTypename ==
    options.addTypename =>
        /\ \A i \in Calls("tsInterfaceBodyForObjectField") :
              /\ Occurrences(Call(i).body, typenameName) = 1
              /\ ~selectsTypenameHere(Call(i)) =>
                    /\ Call(i).body[1].key = typenameName
                    /\ ~Call(i).body[1].optional
        /\ PrintFilePrinted =>
              Occurrences(RootInterfaceOfPrintFile.body, typenameName) = 1

C8_BuiltBodiesGetOneTypename ==
    options.addTypename =>
        /\ \A i \in Calls("tsInterfaceBodyForObjectField") :
              LET e == Call(i)
              IN /\ Occurrences(e.body, typenameName) = 1
                 /\ e.addedTypename = ~selectsTypenameHere(e)
                 /\ e.addedTypename =>
                       /\ e.body[1].key = typenameName
                       /\ Len(e.body) = 1 + Len(FirstOccurrences(e.fields))
                       /\ e.body[1].optional = (e.partial /\ ~e.requiresTypename)
        /\ PrintFilePrinted =>
              Keys(RootInterfaceOfPrintFile.body)
                  = [k \in DOMAIN file.operation.fields |->
                        file.operation.fields[k].responseName]

\* self { type: __typename name } with addTypename
C8_Witness ==
    /\ pc = "printFile"
    /\ options.addTypename
    /\ \E i \in Calls("tsInterfaceBodyForObjectField") :
          /\ Call(i).fields = <<typenameAliased, nameField>>
          /\ Call(i).graphQLType = Person
          /\ Call(i).body =
                 <<tsPropertySignature(typenameName,
                                       tsLiteralType(Person.name), FALSE),
                   tsPropertySignature(typeStr,
                                       tsLiteralType(Person.name), FALSE),
                   tsPropertySignature(nameStr, tsStringKeyword, FALSE)>>
    /\ Occurrences(RootInterfaceOfPrintFile.body, typenameName) = 0

(***************************************************************************)
(* C9: without addTypename and with no __typename selected anywhere, no    *)
(* interface has a __typename property, except the inline fragment and     *)
(* Other interfaces of the partial output: each of these has one, added    *)
(* as its first property, required and typed by the literal(s).            *)
(***************************************************************************)
RECURSIVE selectsTypename(_)
selectsTypename(fields) ==
    \E k \in DOMAIN fields :
        \/ fields[k].fieldName = typenameName
        \/ selectsTypename(fields[k].fields)
        \/ \E j \in DOMAIN fields[k].inlineFragments :
              selectsTypename(fields[k].inlineFragments[j].fields)

NoTypenameAsked ==
    /\ Printed
    /\ ~options.addTypename
    /\ IF truthy(file.operation) THEN ~selectsTypename(file.operation.fields)
       ELSE \A k \in DOMAIN file.fragments :
               ~selectsTypename(file.fragments[k].fields)

\* the body is that of an inline fragment of a field, or of its Other
isBranchBody(e) ==
    \E j \in Calls("tsTypeForObjectField") :
        /\ Call(j).stackName = e.stackName
        /\ Call(j).partial = e.partial
        /\ \/ /\ isArray(e.graphQLType)
              /\ e.fields = Call(j).field.fields
              /\ Len(Call(j).field.inlineFragments) > 0
           \/ \E k \in DOMAIN Call(j).field.inlineFragments :
                 /\ e.fields = Call(j).field.inlineFragments[k].fields
                 /\ e.graphQLType = Call(j).field.inlineFragments[k].typeCondition

\* the claim as stated: no __typename in any interface of the generated code
C9_NoTypenameAnywhere ==
    NoTypenameAsked =>
        \A body \in EmittedBodies : Occurrences(body, typenameName) = 0

C9_NoTypenameButPartialBranches ==
    NoTypenameAsked =>
        \A i \in Calls("tsInterfaceBodyForObjectField") :
            LET e == Call(i)
            IN IF e.partial /\ isBranchBody(e)
               THEN /\ e.body[1] = tsPropertySignature(
                                       typenameName,
                                       TypenameLiteralOf(e.graphQLType), FALSE)
                    /\ Occurrences(e.body, typenameName) = 1
               ELSE Occurrences(e.body, typenameName) = 0

\* object { ... on Ball { color } } without addTypename: ObjectBall of the
\* partial output starts with a required __typename: "Ball"
C9_Witness ==
    /\ pc = "printDocument"
    /\ NoTypenameAsked
    /\ \E i \in Calls("tsInterfaceBodyForObjectField") :
          /\ Call(i).partial
          /\ Call(i).fields = <<colorField>>
          /\ Call(i).graphQLType = Ball
          /\ Call(i).body[1] =
                 tsPropertySignature(typenameName, tsLiteralType(Ball.name),
                                     FALSE)

(***************************************************************************)
(* C10: in the partial output every property is optional and its type is   *)
(* unioned with null, except the __typename (added or selected) of an      *)
(* inline fragment or Other interface: that one is required and typed by   *)
(* the literal(s) alone.  A __typename selected anywhere else is optional  *)
(* and unioned with null like the other properties.                        *)
(***************************************************************************)
PartialBodies ==
    {i \in Calls("tsInterfaceBodyForObjectField") : Call(i).partial}

\* the k-th property of the body is an added __typename / prints a selected
\* __typename field
isAddedTypename(e, k) == e.addedTypename /\ k = 1
isSelectedTypename(e, k) ==
    /\ ~isAddedTypename(e, k)
    /\ FirstOccurrences(e.fields)[IF e.addedTypename THEN k - 1 ELSE k]
          .field.fieldName = typenameName

isOptionalNullable(property) ==
    property.optional /\ isNullable(property.typeAnnotation)

\* the claim as stated: only a __typename the document asked for is exempt
C10_PartialAllOptionalNullable ==
    \A i \in PartialBodies :
        \A k \in DOMAIN Call(i).body :
            ~isSelectedTypename(Call(i), k) => isOptionalNullable(Call(i).body[k])

C10_PartialOptionalButBranchTypename ==
    \A i \in PartialBodies :
        LET e == Call(i)
        IN /\ e.requiresTypename = isBranchBody(e)
           /\ \A k \in DOMAIN e.body :
                 IF /\ isAddedTypename(e, k) \/ isSelectedTypename(e, k)
                    /\ e.requiresTypename
                 THEN /\ ~e.body[k].optional
                      /\ e.body[k].typeAnnotation
                            = TypenameLiteralOf(e.graphQLType)
                 ELSE isOptionalNullable(e.body[k])

\* object { ... on Ball { __typename owner { name } } }: in the partial
\* output __typename is required, owner optional and unioned with null
C10_Witness ==
    /\ pc = "printDocument"
    /\ \E i \in PartialBodies :
          /\ Call(i).fields = <<typenameSelected, ownerField>>
          /\ ~Call(i).addedTypename
          /\ Call(i).body[1] =
                 tsPropertySignature(typenameName, tsLiteralType(Ball.name),
                                     FALSE)
          /\ Call(i).body[2].key = ownerStr
          /\ isOptionalNullable(Call(i).body[2])

(***************************************************************************)
(* C11: in the full output, inside every list type and at every depth, a   *)
(* nullable element type is unioned with null, parenthesized and then      *)
(* array-wrapped, a non-null element type is array-wrapped as it is, and a *)
(* nullable list is unioned with null; for the types of fields and of      *)
(* variables alike.  One non-null element type is parenthesized: that of a *)
(* field with inline fragments, whose type is the union of the fragments'  *)
(* interfaces.                                                             *)
(***************************************************************************)
RECURSIVE rendersLists(_, _, _)
\* type renders unwrappedGraphQLType (a type without its NonNull wrapper);
\* unionsKeptBare: a non-null element is never parenthesized (the claim as
\* stated) / is parenthesized exactly when it is a union
rendersLists(unwrappedGraphQLType, type, unionsKeptBare) ==
    isListType(unwrappedGraphQLType) =>
        /\ type.k = "array"
        /\ IF isNonNullType(unwrappedGraphQLType.ofType)
           THEN LET isParenthesized == type.elementType.k = "parenthesized"
                    element == IF isParenthesized
                               THEN type.elementType.typeAnnotation
                               ELSE type.elementType
                IN /\ ~isNullable(element)
                   /\ IF unionsKeptBare THEN ~isParenthesized
                      ELSE isParenthesized = isTSUnionType(element)
                   /\ rendersLists(unwrappedGraphQLType.ofType.ofType, element,
                                   unionsKeptBare)
           ELSE /\ type.elementType.k = "parenthesized"
                /\ isNullable(type.elementType.typeAnnotation)
                /\ rendersLists(unwrappedGraphQLType.ofType,
                                withoutNull(type.elementType.typeAnnotation),
                                unionsKeptBare)

\* type renders graphQLType, a nullable one unioned with null
rendersType(graphQLType, type, unionsKeptBare) ==
    IF isNonNullType(graphQLType)
    THEN rendersLists(graphQLType.ofType, withoutNull(type), unionsKeptBare)
    ELSE /\ isNullable(type)
         /\ rendersLists(graphQLType, withoutNull(type), unionsKeptBare)

\* the Variables interface of the generated code: the first interface of the
\* namespace of the full output
hasTypedVariables ==
    /\ truthy(file.operation)
    /\ SelectSeq(file.operation.variables, isTypedVariable) # <<>>
TypedVariables == SelectSeq(file.operation.variables, isTypedVariable)
FullName == typeName([operation |-> file.operation,
                      options |-> [partial |-> FALSE]])
FullNamespace ==
    printed.code[CHOOSE i \in Statements("export namespace") :
                    printed.code[i].id = FullName]
VariablesInterface == FullNamespace.body[1]
VariablesPrinted == Printed /\ printed.thrown = "" /\ hasTypedVariables

FullProperties ==
    {i \in Calls("tsPropertyForField") :
        ~Call(i).partial /\ Call(i).field.fieldName # typenameName}

ListsRendered(unionsKeptBare) ==
    /\ \A i \in FullProperties :
          rendersType(Call(i).field.type, Call(i).property.typeAnnotation,
                      unionsKeptBare)
    /\ VariablesPrinted =>
          \A k \in DOMAIN TypedVariables :
              rendersType(TypedVariables[k].type,
                          VariablesInterface.body[k].typeAnnotation,
                          unionsKeptBare)

\* the claim as stated
C11_ListsParenthesizeNullableOnly == ListsRendered(TRUE)

C11_ListsParenthesizeNullableAndUnions == ListsRendered(FALSE)

\* [[String!]]! as the type of a field: (string[] | null)[]
C11_Witness ==
    /\ pc = "printFile"
    /\ \E i \in FullProperties :
          /\ Call(i).field.type =
                 GraphQLNonNull(GraphQLList(GraphQLList(GraphQLNonNull(
                     GraphQLString))))
          /\ Call(i).property.typeAnnotation =
                 tsArrayType(tsParenthesizedType(tsUnionType(
                     <<tsArrayType(tsStringKeyword), tsNullKeyword>>)))

\* [[String]] as the type of a variable: ((string | null)[] | null)[] | null
C11_WitnessVariable ==
    /\ VariablesPrinted
    /\ TypedVariables = <<Variable(tagsStr, GraphQLList(GraphQLList(GraphQLString)))>>
    /\ VariablesInterface.body[1].typeAnnotation =
           tsUnionType(<<tsArrayType(tsParenthesizedType(tsUnionType(
               <<tsArrayType(tsParenthesizedType(tsUnionType(
                     <<tsStringKeyword, tsNullKeyword>>))),
                 tsNullKeyword>>))), tsNullKeyword>>)

(***************************************************************************)
(* C12: in the full output, the property of a field of the schema whose    *)
(* type is a non-null built-in scalar and that is reached unconditionally  *)
(* is required and typed string (String, ID), number (Int, Float) or       *)
(* boolean (Boolean); the property of the same field declared nullable is  *)
(* optional and typed by the union of that primitive with null.            *)
(***************************************************************************)
primitiveOf(scalar) ==
    IF scalar \in {GraphQLString, GraphQLID} THEN tsStringKeyword
    ELSE IF scalar \in {GraphQLInt, GraphQLFloat} THEN tsNumberKeyword
    ELSE tsBooleanKeyword

\* the unconditional fields of built-in scalar type printed in the full output
UnconditionalBuiltIns ==
    {i \in FullProperties :
        /\ ~Call(i).field.isConditional
        /\ unwrap(Call(i).field.type) \in BuiltInScalars}

C12_BuiltInScalarsMapped ==
    \A i \in UnconditionalBuiltIns :
        LET type     == Call(i).field.type
            property == Call(i).property
        IN IF isNonNullType(type)
           THEN /\ ~property.optional
                /\ property.typeAnnotation = primitiveOf(type.ofType)
           ELSE /\ property.optional
                /\ property.typeAnnotation =
                       tsUnionType(<<primitiveOf(type), tsNullKeyword>>)

\* age: Int! printed as 'age: number'
C12_Witness ==
    \E i \in UnconditionalBuiltIns :
        /\ Call(i).field.type = GraphQLNonNull(GraphQLInt)
        /\ Call(i).property =
               tsPropertySignature(ageStr, tsNumberKeyword, FALSE)

(***************************************************************************)
(* C13: the namespace of an operation starts with a Variables interface    *)
(* exactly when the operation has a variable with a type; the interface    *)
(* has one property per typed variable, in the order of declaration, the   *)
(* untyped ones skipped; a property is optional and unioned with null      *)
(* exactly when the variable's type is not non-null; without a Variables   *)
(* interface the document's variables parameter is never.                  *)
(***************************************************************************)
OperationPrinted ==
    Printed /\ truthy(file.operation) /\ printed.thrown = ""

\* the interfaces of the namespaces that are named Variables
InterfacesNamedVariables ==
    UNION {{printed.code[i].body[j] :
               j \in {j \in DOMAIN printed.code[i].body :
                         printed.code[i].body[j].id = VariablesName}} :
           i \in Statements("export namespace")}

\* the interface is the one of a field whose response name is 'variables'
isInterfaceOfField(declaration) ==
    \E i \in Calls("tsInterfaceBodyForObjectField") :
        /\ Call(i).stackName = declaration.id
        /\ Call(i).body = declaration.body

\* the second type parameter of the declared document
VariablesParameter ==
    printed.code[CHOOSE i \in Statements("declare const document") : TRUE]
        .typeParameters[2]

VariablesInterfaceEmitted ==
    /\ \E i \in Statements("export namespace") : printed.code[i].id = FullName
    /\ VariablesInterface.id = VariablesName
    /\ Keys(VariablesInterface.body) =
           [k \in DOMAIN TypedVariables |-> TypedVariables[k].name]
    /\ \A k \in DOMAIN TypedVariables :
          LET property == VariablesInterface.body[k]
              isNonNull == isNonNullType(TypedVariables[k].type)
          IN /\ property.optional = ~isNonNull
             /\ isNullable(property.typeAnnotation) = ~isNonNull
    /\ VariablesParameter = tsQualifiedName(FullName, VariablesName)

NoVariablesInterfaceEmitted ==
    /\ \A declaration \in InterfacesNamedVariables :
          isInterfaceOfField(declaration)
    /\ VariablesParameter = tsNeverKeyword

C13_WitnessNever ==
    /\ OperationPrinted
    /\ Len(file.operation.variables) = 1
    /\ ~hasTypedVariables
    /\ VariablesParameter = tsNeverKeyword

hasNoRootType ==
    /\ truthy(file.operation)
    /\ ~truthy(getRootType(file.operation, [schema |-> schema]))

C15_MissingRootTypeThrows ==
    (pc = "printDocument" /\ hasNoRootType) =>
        /\ printed.thrown = "MissingOperationRootType"
        /\ printed.code = <<>>

\* a subscription printed for a schema without a subscription type: nothing
\* is thrown and the interfaces of the operation are generated
C15_Witness ==
    /\ pc = "printDocument"
    /\ hasNoRootType
    /\ file.operation.operationType = OperationTypeSubscription
    /\ printed.thrown = ""
    /\ Statements("export interface") # {}

(***************************************************************************)
(* C16: a type of a kind the mapping has no branch for never makes it      *)
(* throw and is rendered any, in the mapping of the types of fields        *)
(* (tsTypeForGraphQLType) and in that of the types of variables            *)
(* (tsTypeForGraphQLInputType).                                            *)
(***************************************************************************)
\* the kinds tsTypeForGraphQLType has no branch for
isUnhandledFieldType(unwrappedGraphQLType) ==
    ~(\/ isScalarType(unwrappedGraphQLType)
      \/ isEnumType(unwrappedGraphQLType)
      \/ isListType(unwrappedGraphQLType)
      \/ isObjectType(unwrappedGraphQLType)
      \/ isInterfaceType(unwrappedGraphQLType)
      \/ isUnionType(unwrappedGraphQLType))

\* the kinds tsTypeForGraphQLInputType has no branch for
isUnhandledInputType(unwrappedGraphQLType) ==
    ~(\/ isScalarType(unwrappedGraphQLType)
      \/ isEnumType(unwrappedGraphQLType)
      \/ isInputObjectType(unwrappedGraphQLType)
      \/ isListType(unwrappedGraphQLType))

hasUnhandledVariable ==
    /\ truthy(file.operation)
    /\ \E k \in DOMAIN file.operation.variables :
          /\ isTypedVariable(file.operation.variables[k])
          /\ isUnhandledInputType(unwrap(file.operation.variables[k].type))

C16_UnhandledKindsRenderAny ==
    Printed =>
        /\ printed.thrown = ""
        /\ \A i \in Calls("tsPropertyForField") :
              isUnhandledFieldType(unwrap(Call(i).field.type)) =>
                  withoutNull(Call(i).property.typeAnnotation) = tsAnyKeyword
        /\ (VariablesPrinted /\ hasUnhandledVariable) =>
              \A k \in DOMAIN TypedVariables :
                  isUnhandledInputType(unwrap(TypedVariables[k].type)) =>
                      withoutNull(VariablesInterface.body[k].typeAnnotation)
                      = tsAnyKeyword

\* the field mapper renders the input object type of a field as any
C16_FieldsRenderAny ==
    \A i \in Calls("tsPropertyForField") :
        isUnhandledFieldType(unwrap(Call(i).field.type)) =>
            withoutNull(Call(i).property.typeAnnotation) = tsAnyKeyword

\* query Details($self: Person) { name }: the input mapper throws a TypeError
\* and nothing is generated
C16_Witness ==
    /\ Printed
    /\ hasUnhandledVariable
    /\ printed.thrown = "TypeError"
    /\ printed.code = <<>>

(***************************************************************************)
(* C17: when the printing of one file of a pass throws, the Builder emits  *)
(* an error for that file and still writes the definition of, and emits    *)
(* build:docs for, every other file of the pass.                           *)
(***************************************************************************)
throws(path) ==
    printDocument(fileMap[path], [schema |-> schema], options).thrown # ""

Emitted(event) == \E i \in DOMAIN emitted : emitted[i] = event
Written(path)  == \E i \in DOMAIN written : written[i] = path

\* the pass returned after compile succeeded
PassReturned ==
    /\ pc = "returned"
    /\ ~Emitted(errorEvent(0))

C17_FailingFileStopsNoOther ==
    PassReturned =>
        \A path \in DOMAIN fileMap :
            IF throws(path) THEN Emitted(errorEvent(path))
            ELSE Written(path) /\ Emitted(buildDocsEvent(path))

\* what the loop does: the files before the first one that throws are
\* written, the error of that one is emitted, the files after it are skipped
C17_FilesAfterFailingAreSkipped ==
    PassReturned =>
        \A path \in DOMAIN fileMap :
            LET isBeforeFirstThrow == \A earlier \in 1..(path - 1) : ~throws(earlier)
            IN /\ Written(path) = (isBeforeFirstThrow /\ ~throws(path))
               /\ Emitted(buildDocsEvent(path)) = Written(path)
               /\ Emitted(errorEvent(path)) = (isBeforeFirstThrow /\ throws(path))

\* the first of two files throws: the error is emitted and the pass returns
\* without a definition for the second, which prints
C17_Witness ==
    /\ PassReturned
    /\ Len(fileMap) = 2
    /\ throws(1)
    /\ ~throws(2)
    /\ emitted = <<errorEvent(1)>>
    /\ written = <<>>

(***************************************************************************)
(* C18: the printDocument of files with any number of operations exports   *)
(* exactly one default when the file has an operation: the document of the *)
(* operation when there is one operation; a separate declared 'document'   *)
(* when there are several, the documents of the operations being named     *)
(* exports only; and no default when the file has no operation.            *)
(***************************************************************************)
DefaultExports == Statements("export default")
DefaultExport  == printed.code[CHOOSE i \in DefaultExports : TRUE]

\* the operation's document is declared and exported by name, once
isNamedExport(operation) ==
    Cardinality({i \in Statements("export declare const") :
                    printed.code[i].id = operation.operationName}) = 1

C18_OneDefaultExport ==
    (Printed /\ printed.thrown = "") =>
        LET operations == file.operations
        IN /\ \A k \in DOMAIN operations : isNamedExport(operations[k])
           /\ Cardinality(DefaultExports) = IF operations = <<>> THEN 0 ELSE 1
           /\ Len(operations) = 1 =>
                 DefaultExport.id = operations[1].operationName
           /\ Len(operations) > 1 =>
                 /\ DefaultExport.id = documentName
                 /\ \E i \in Statements("declare const") :
                       printed.code[i] =
                           declareConst(documentName,
                                        tsTypeReference(BaseDocumentNodeName))
                 /\ \A k \in DOMAIN operations :
                       DefaultExport.id # operations[k].operationName

\* two operations: Details and pets are named exports, document the default
C18_Witness ==
    /\ Printed
    /\ Len(file.operations) = 2
    /\ file.operations[1].operationName = detailsStr
    /\ file.operations[2].operationName = petsStr
    /\ Cardinality(DefaultExports) = 1
    /\ DefaultExport = exportDefault(documentName)
    /\ isNamedExport(file.operations[1])
    /\ isNamedExport(file.operations[2])

\* one operation: its document is the default export
C18_WitnessOneOperation ==
    /\ Printed
    /\ Len(file.operations) = 1
    /\ DefaultExport = exportDefault(file.operations[1].operationName)

(***************************************************************************)
(* C19: the import of the schema types lists every scalar, enum or input   *)
(* type of the schema the file refers to exactly once, also when the full  *)
(* and the partial output both refer to it, in the order in which the      *)
(* printer first referred to them: the variables in their order, then the  *)
(* fields in the order in which they are printed.  The list is not sorted. *)
(***************************************************************************)
RECURSIVE namedTypeOf(_)
namedTypeOf(graphQLType) ==
    IF isNonNullType(graphQLType) \/ isListType(graphQLType)
    THEN namedTypeOf(graphQLType.ofType)
    ELSE graphQLType

\* the name the schema import needs for a type, if any
importedFor(graphQLType, isInput) ==
    LET named == namedTypeOf(graphQLType)
    IN IF \/ isScalarType(named) /\ ~scalarTypeMapHas(named.name)
          \/ isEnumType(named)
          \/ isInput /\ isInputObjectType(named)
       THEN <<named.name>>
       ELSE <<>>

RECURSIVE importedForVariables(_)
importedForVariables(variables) ==
    IF variables = <<>> THEN <<>>
    ELSE importedFor(Head(variables).type, TRUE)
         \o importedForVariables(Tail(variables))

\* the names the fields printed by the first n calls of the history need
RECURSIVE importedForCalls(_)
importedForCalls(n) ==
    IF n = 0 THEN <<>>
    ELSE importedForCalls(n - 1)
         \o IF Call(n).call = "tsPropertyForField"
            THEN importedFor(Call(n).field.type, FALSE)
            ELSE <<>>

References ==
    (IF truthy(file.operation) THEN importedForVariables(TypedVariables) ELSE <<>>)
    \o importedForCalls(Len(printed.history))

\* the names of a list, each at the place where it occurs first
firstOccurrences(names) ==
    SelectSeq([i \in DOMAIN names |-> [name |-> names[i], index |-> i]],
              LAMBDA x : \A j \in 1..(x.index - 1) : names[j] # x.name)

ImportedNames == importedTypesLeft(printed.code)

\* the order of String.prototype.sort on names made of letters
charCode(c) ==
    CHOOSE i \in DOMAIN (UpperCase \o LowerCase) : (UpperCase \o LowerCase)[i] = c
RECURSIVE isBefore(_, _)
isBefore(a, b) ==
    IF a = <<>> THEN b # <<>>
    ELSE IF b = <<>> THEN FALSE
    ELSE IF Head(a) = Head(b) THEN isBefore(Tail(a), Tail(b))
    ELSE charCode(Head(a)) < charCode(Head(b))

isSorted(names) ==
    \A i, j \in DOMAIN names : i < j => isBefore(names[i], names[j])

PrintedByOnePrinter == pc \in {"printDocument", "printFile"} /\ printed.thrown = ""

\* the claim as stated: once each, sorted
C19_ImportsOnceAndSorted ==
    PrintedByOnePrinter =>
        /\ Range(ImportedNames) = Range(References)
        /\ isSorted(ImportedNames)

C19_ImportsOnceInOrderOfReference ==
    PrintedByOnePrinter =>
        ImportedNames =
            [k \in DOMAIN firstOccurrences(References) |->
                firstOccurrences(References)[k].name]

\* born: Date selected before breed: Breed!; both are referred to by the full
\* and by the partial output, and the import lists Date, Breed
C19_Witness ==
    /\ pc = "printDocument"
    /\ ImportedNames = <<Date.name, Breed.name>>
    /\ Len(References) = 4

(***************************************************************************)
(* C20: the root type of an operation is named by the capitalized name of  *)
(* the operation, its capitalized type and 'Data'; that of a fragment by   *)
(* the capitalized name of the fragment and 'FragmentData'; the partial    *)
(* output by the same name with 'PartialData' in the place of the final    *)
(* 'Data'; and every reference to an interface generated for the output    *)
(* (full or partial) is qualified by the root name of that output.         *)
(***************************************************************************)
RootNameOf(definition, suffix) ==
    IF definition.kind = "Operation"
    THEN ucFirst(definition.operationName) \o ucFirst(definition.operationType)
         \o suffix
    ELSE ucFirst(definition.fragmentName)
         \o <<"F","r","a","g","m","e","n","t">> \o suffix

FullSuffix    == <<"D","a","t","a">>
PartialSuffix == <<"P","a","r","t","i","a","l","D","a","t","a">>

\* the root names a printed file may use: those of its operation (the partial
\* one in printDocument only) or those of its fragments
RootNames(isPartial) ==
    IF truthy(file.operation)
    THEN {RootNameOf(file.operation, IF isPartial THEN PartialSuffix ELSE FullSuffix)}
    ELSE {RootNameOf(file.fragments[k], FullSuffix) : k \in DOMAIN file.fragments}

\* the namespaces by which the references of a type are qualified
QualifiersOf(type) ==
    IF type.k = "qualified" THEN {type.left}
    ELSE IF isTSUnionType(type)
    THEN {type.types[j].left :
             j \in {j \in DOMAIN type.types : type.types[j].k = "qualified"}}
    ELSE {}

RootInterfaceNames ==
    {printed.code[i].id : i \in Statements("export interface")}
NamespaceNames ==
    {printed.code[i].id : i \in Statements("export namespace")}

UncoveredTypes(e) ==
    SelectSeq(getPossibleTypes([schema |-> schema], e.graphQLType),
              LAMBDA type : type \notin CoveredTypes(e))

\* the calls that printed the body of the Other interface of the field of
\* call i
OtherBodiesOf(i) ==
    {j \in Calls("tsInterfaceBodyForObjectField") :
        /\ j < i
        /\ Call(j).stackName = Call(i).stackName
        /\ Call(j).partial = Call(i).partial
        /\ isArray(Call(j).graphQLType)}

WithOther ==
    {i \in AbstractWithFragments : UncoveredTypes(Call(i)) # <<>>}

C26_OtherPrintsFieldsOfTheField ==
    \A i \in WithOther :
        /\ OtherBodiesOf(i) # {}
        /\ \A j \in OtherBodiesOf(i) :
              LET selected == FirstOccurrences(Call(i).field.fields)
              IN /\ Call(j).graphQLType.types = UncoveredTypes(Call(i))
                 /\ Keys(FieldProperties(Call(j))) =
                        [k \in DOMAIN selected |-> selected[k].field.responseName]

\* named { name __typename name @include ... on Person { born } }: the Other
\* interface, printed for Ball, has the properties name and __typename
C26_Witness ==
    \E i \in WithOther :
        /\ Len(Call(i).field.fields) = 3
        /\ \E j \in OtherBodiesOf(i) :
              /\ ~Call(j).addedTypename
              /\ Keys(Call(j).body) = <<nameStr, typenameName>>
              /\ Call(j).graphQLType.types = <<Ball>>

\* object { __typename ... on Ball { color } } on the union Ball | Cube: the
\* Other interface has the one property __typename
C26_WitnessUnion ==
    \E i \in WithOther :
        /\ isUnionType(Call(i).graphQLType)
        /\ Call(i).field.fields = <<typenameSelected>>
        /\ \E j \in OtherBodiesOf(i) : Keys(Call(j).body) = <<typenameName>>


(***************************************************************************)
(* C25                                                                     *)
(***************************************************************************)
\* the frames from the root to a frame, by their addresses
RECURSIVE AncestorPath(_, _)
AncestorPath(heap, address) ==
    IF heap[address].parent = 0 THEN <<address>>
    ELSE Append(AncestorPath(heap, heap[address].parent), address)

FieldNameOf(frame) ==
    IF frame.field # Undefined THEN ucFirst(frame.field.responseName) ELSE <<>>
TypeNameOf(frame) ==
    IF truthy(frame.type) THEN frame.type.name ELSE OtherName
\* what one frame adds to a name: its field's name and, for a fragment frame,
\* the name of its type
FrameNameOf(frame) ==
    IF frame.isFragment THEN FieldNameOf(frame) \o TypeNameOf(frame)
    ELSE FieldNameOf(frame)

FieldNamesOfPath(heap, address) ==
    LET path == AncestorPath(heap, address)
    IN join([k \in DOMAIN path |-> FieldNameOf(heap[path[k]])])
FrameNamesOfPath(heap, address) ==
    LET path == AncestorPath(heap, address)
    IN join([k \in DOMAIN path |-> FrameNameOf(heap[path[k]])])

\* nested() and fragment() return a new frame and leave the names of the
\* frames there were as they were
ReturnsNewFrame ==
    stackCall.call \in {"nested", "fragment"} =>
        /\ stackCall.returned = Len(stackCall.names) + 1
        /\ stackCall.returned = Len(stacks)
        /\ SubSeq(Names(stacks), 1, Len(stackCall.names)) = stackCall.names
\* a frame of fragment(type) has the field and the parent of the frame it is
\* created from, and its name is that of the parent, the field and the type
FragmentIsSibling ==
    stackCall.call = "fragment" =>
        LET this == stacks[stackCall.this]
            frame == stacks[stackCall.returned]
        IN /\ frame.field = this.field
           /\ frame.parent = this.parent
           /\ frame.isFragment
           /\ frame_name(stacks, stackCall.returned) =
                  (IF this.parent = 0 THEN <<>>
                   ELSE frame_name(stacks, this.parent))
                  \o FieldNameOf(this)
                  \o (IF truthy(stackCall.type) THEN stackCall.type.name
                      ELSE OtherName)

\* C25 as stated: the name of a frame is the capitalized response names of
\* the fields of its ancestors, from the root, followed for a fragment frame
\* by the name of its type or Other; a fragment frame is a sibling; nested()
\* and fragment() return new frames and change no name
C25_NameIsFieldNamesThenType ==
    /\ \A address \in DOMAIN stacks :
          frame_name(stacks, address) =
              FieldNamesOfPath(stacks, address)
              \o (IF stacks[address].isFragment THEN TypeNameOf(stacks[address])
                  ELSE <<>>)
    /\ FragmentIsSibling
    /\ ReturnsNewFrame

\* C25: the name of a frame is, from the root, the capitalized response name
\* of the field of each ancestor frame, each fragment frame among them adding
\* the name of its type, or Other, after its field's name (so the name of a
\* frame nested in a fragment frame has the type's name inside it); a frame
\* of fragment(type) keeps the field and the parent of the frame it is
\* created from; nested() and fragment() return new frames and never change
\* the name of an existing frame
C25_NameIsFrameNamesOfPath ==
    /\ \A address \in DOMAIN stacks :
          frame_name(stacks, address) = FrameNamesOfPath(stacks, address)
    /\ FragmentIsSibling
    /\ ReturnsNewFrame

\* object nested in the root, then its fragment on Ball: Object, ObjectBall
C25_Witness ==
    /\ Names(stacks) = <<(<<>>), ucFirst(objectStr), ucFirst(objectStr) \o Ball.name>>
    /\ stackCall.call = "fragment"
    /\ stackCall.this = 2

\* the fragment of the root without a type, and owner nested in it: Other,
\* OtherOwner
C25_WitnessNestedInFragment ==
    /\ Names(stacks) = <<(<<>>), OtherName, OtherName \o ucFirst(ownerStr)>>
    /\ stackCall.call = "nested"
    /\ stackCall.this = 2

(***************************************************************************)
(* C27                                                                     *)
(***************************************************************************)
\* the frames a body was printed with, and the sibling fragment frames
Filtered == {address \in DOMAIN stacks : bodies[address] # NoBody}
Siblings(address) ==
    {other \in DOMAIN stacks \ {address} :
        /\ stacks[other].isFragment /\ stacks[address].isFragment
        /\ stacks[other].parent = stacks[address].parent
        /\ stacks[other].field = stacks[address].field}
ResponseNames(fields) == [k \in DOMAIN fields |-> fields[k].responseName]

\* C27: every frame has a Set of seen fields of its own, empty when nested()
\* or fragment() returns the frame; the fields kept for a body printed with a
\* frame are the first of each response name among the fields of that body,
\* whatever was printed with other frames before, so that a response name
\* selected in two sibling fragment frames is kept in both
C27_SeenFieldsOfOneFrame ==
    /\ \A a, b \in DOMAIN stacks :
          stacks[a].seenFields = stacks[b].seenFields => a = b
    /\ stackCall.call \in {"nested", "fragment"} =>
          seenSets[stacks[stackCall.returned].seenFields] = {}
    /\ \A address \in Filtered :
          LET first == FirstOccurrences(bodies[address].fields)
          IN /\ bodies[address].uniqueFields =
                    [k \in DOMAIN first |-> first[k].field]
             /\ seenSets[stacks[address].seenFields] =
                    Range(ResponseNames(bodies[address].fields))

\* the root, its fragment on Ball and its fragment without a type: a body
\* with color was printed with each of the three, the last one with
\* color, __typename, color, and color is kept once in each
C27_Witness ==
    /\ Len(stacks) = 3
    /\ Siblings(2) = {3}
    /\ ~truthy(stacks[3].type)
    /\ Filtered = {1, 2, 3}
    /\ stackCall.call = "uniqueFields"
    /\ ResponseNames(bodies[3].fields) = <<colorStr, typeStr, colorStr>>
    /\ ResponseNames(bodies[3].uniqueFields) = <<colorStr, typeStr>>
    /\ \A address \in {1, 2} : colorStr \in Range(ResponseNames(bodies[address].uniqueFields))

(***************************************************************************)
(* C22                                                                     *)
(***************************************************************************)
\* a path of the configuration file, resolved against the directory of the
\* file
Resolved(path) == IF path # <<>> /\ Head(path) = "/" THEN path ELSE Dirpath \o path
ResolvedAll(paths) == [k \in DOMAIN paths |-> Resolved(paths[k])]
\* the files that match an include pattern and no exclude pattern
Included(include) ==
    SelectSeq(AllPaths, LAMBDA path :
        /\ path \in args.files
        /\ minimatch(path, Resolved(include))
        /\ \A k \in DOMAIN args.project.excludes :
              ~minimatch(path, Resolved(args.project.excludes[k])))
GlobsIncludesIgnoringExcludes ==
    LET includes == args.project.includes
    IN /\ DOMAIN returned.globs = DOMAIN includes
       /\ \A k \in DOMAIN includes :
             /\ returned.globs[k].pattern = Resolved(includes[k])
             /\ returned.globs[k].ignore = ResolvedAll(args.project.excludes)
       /\ returned.value = join([k \in DOMAIN includes |-> Included(includes[k])])

\* C22: getGraphQLProjectIncludedFilePaths globs every include pattern of the
\* project, resolved against the directory of the configuration file, with
\* the project's exclude patterns, resolved the same way, as glob's ignore,
\* and returns the concatenation of the paths matched
C22_GlobsIncludesIgnoringExcludes ==
    returned.call = "getGraphQLProjectIncludedFilePaths" =>
        GlobsIncludesIgnoringExcludes

\* the getGraphQLProjectIncludedFilePaths of the earlier config.ts does
C22_EarlierGlobsIncludesIgnoringExcludes ==
    returned.call = "earlier_getGraphQLProjectIncludedFilePaths" =>
        GlobsIncludesIgnoringExcludes

\* include: 'app/*', exclude: 'app/b.graphql', and app/a.graphql is there:
\* glob is given the include pattern to ignore and nothing is returned
C22_Witness ==
    /\ returned.call = "getGraphQLProjectIncludedFilePaths"
    /\ args.project.includes = << <<"app", "*">> >>
    /\ args.project.excludes = << <<"app", "b.graphql">> >>
    /\ <<"/", "cfg", "app", "a.graphql">> \in args.files
    /\ returned.globs[1].ignore = << <<"/", "cfg", "app", "*">> >>
    /\ returned.value = <<>>

(***************************************************************************)
(* C24                                                                     *)
(***************************************************************************)
\* C24: resolveSchemaPath throws 'Missing GraphQL schemaPath' when the
\* project's schema is empty, whatever ignoreMissing; throws 'Schema not
\* found' when the resolved path does not exist and ignoreMissing is false;
\* otherwise returns the schema path resolved against the directory of the
\* configuration file, and with ignoreMissing it never looks for the file
C24_ResolveSchemaPath ==
    returned.call = "resolveSchemaPath" =>
        LET schemaPath == Resolved(args.project.schema)
        IN /\ IF args.project.schema = <<>>
              THEN returned.thrown = "Missing GraphQL schemaPath"
              ELSE IF ~returned.ignoreMissing /\ schemaPath \notin args.files
              THEN returned.thrown = "Schema not found"
              ELSE returned.thrown = "" /\ returned.value = schemaPath
           /\ returned.ignoreMissing => returned.existsSync = <<>>

\* schema: 'schema.json', no /cfg/schema.json and ignoreMissing:
\* /cfg/schema.json is returned
C24_Witness ==
    /\ returned.call = "resolveSchemaPath"
    /\ returned.ignoreMissing
    /\ args.project.schema = <<"schema.json">>
    /\ <<"/", "cfg", "schema.json">> \notin args.files
    /\ returned.thrown = ""
    /\ returned.value = <<"/", "cfg", "schema.json">>

\* the schema is not there and ignoreMissing is false: 'Schema not found';
C24_WitnessNotFound ==
    /\ returned.call = "resolveSchemaPath"
    /\ ~returned.ignoreMissing
    /\ args.project.schema = <<"/", "abs", "schema.json">>
    /\ returned.thrown = "Schema not found"

\* the schema is empty and ignoreMissing: 'Missing GraphQL schemaPath'
C24_WitnessMissing ==
    /\ returned.call = "resolveSchemaPath"
    /\ returned.ignoreMissing
    /\ returned.thrown = "Missing GraphQL schemaPath"

(***************************************************************************)
(* C23                                                                     *)
(***************************************************************************)
\* the projects that have an operation with the name of the fixture's
Matching ==
    {k \in DOMAIN args.projectOperations :
        args.fixture.operationName \in Range(args.projectOperations[k].ast.operations)}
Evaluated == returned.call = "evaluateFixture"

\* C23: a fixture evaluated against the projects (one at least): when no
\* project has an operation with the name of the fixture's the validation
\* errors begin with the operation-not-found error; when more than one has,
\* they are one 'Ambiguous operation name' error and the fixture is validated
\* against no AST; when exactly one has, the evaluation is the validation of
\* the fixture against the AST of that project
C23_EvaluateFixture ==
    Evaluated =>
        LET evaluation == returned.evaluation
            errors == evaluation.validationErrors
        IN /\ Matching = {} =>
                 /\ errors # <<>>
                 /\ SubSeq(errors[1].message, 1, 2) =
                        <<"Operation not found", args.fixture.operationName>>
                 /\ evaluation.ast = ""
           /\ Cardinality(Matching) > 1 =>
                 /\ Len(errors) = 1
                 /\ errors[1].message[1] = "Ambiguous operation name"
                 /\ evaluation.ast = ""
           /\ \A k \in Matching :
                 Matching = {k} =>
                     /\ evaluation.ast = args.projectOperations[k].ast.name
                     /\ errors = <<>> <=> args.fixture.content = "valid"

\* projects A and C have the operation Shop, B has not: one error, 'Ambiguous
\* operation name', that names Shop and the three projects
C23_Witness ==
    /\ Evaluated
    /\ Matching = {1, 3}
    /\ returned.evaluation.validationErrors =
           <<[kind |-> "Error",
              message |-> <<"Ambiguous operation name", "Shop",
                            "Shop/fixture.json", "A", "B", "C">>]>>

\* no project of two has Shop: one error for the two that are missing
C23_WitnessNotFound ==
    /\ Evaluated
    /\ Len(args.projectOperations) = 2
    /\ Matching = {}
    /\ Len(returned.evaluation.validationErrors) = 1
    /\ returned.evaluation.validationErrors[1].message =
           <<"Operation not found", "Shop", "Available operations", "Pets", "Pets">>

\* only project B has Shop: the invalid fixture is validated against B's AST
C23_WitnessOne ==
    /\ Evaluated
    /\ Matching = {2}
    /\ returned.evaluation.ast = "B"
    /\ returned.evaluation.validationErrors # <<>>

(***************************************************************************)
(* C28                                                                     *)
(***************************************************************************)
\* the keys of a filled value, level by level
RECURSIVE KeysOfValue(_)
KeysOfValue(value) ==
    IF value.kind = "object"
    THEN [kind |-> "object",
          keys |-> {[key |-> value.entries[k].key,
                     value |-> KeysOfValue(value.entries[k].value)] :
                        k \in DOMAIN value.entries}]
    ELSE IF value.kind = "list"
    THEN [kind |-> "list",
          items |-> [k \in DOMAIN value.items |-> KeysOfValue(value.items[k])]]
    ELSE [kind |-> value.kind]

\* C28: the fills of one document with the same partial data return objects
\* with the same keys at every level, and the Operation kept for the document
\* is the one compile returned, unchanged
C28_FillsReturnSameKeys ==
    /\ \A i, j \in DOMAIN returned :
          KeysOfValue(returned[i]) = KeysOfValue(returned[j])
    /\ \A id \in DOMAIN documentToOperation :
          id = args.document.id
          /\ documentToOperation[id] = compileFirstOperation(args.document)

\* what holds: the document is compiled by the first fill and kept under its
\* identity, and later fills return the same keys when the partial data
\* holds no list with an item
C28_FillsWithoutItemsReturnSameKeys ==
    /\ DOMAIN documentToOperation =
           IF returned = <<>> THEN {} ELSE {args.document.id}
    /\ (\A id \in DOMAIN documentToOperation :
            documentToOperation[id] = compileFirstOperation(args.document))
       => \A i, j \in DOMAIN returned : returned[i] = returned[j]
    /\ (get(args.data, petsStr) \in {Undefined, ListValue(<<>>)}
        \/ \A k \in DOMAIN args.document.operation.fields :
              args.document.operation.fields[k].responseName # petsStr)
       => C28_FillsReturnSameKeys

\* query { pets { name } } filled twice with {pets: [{}]}: the first fill
\* returns {pets: [{name}]}, the second {'pets-1': []}
C28_Witness ==
    /\ args.document.id = "pets"
    /\ ~args.context.options.addTypename
    /\ Len(returned) = 2
    /\ returned[1] = petsData(<<ObjectValue(<<[key |-> nameStr, value |-> ScalarValue]>>)>>)
    /\ returned[2] = ObjectValue(<<[key |-> petsStr \o <<"-", "1">>,
                                    value |-> ListValue(<<>>)]>>)
    /\ documentToOperation["pets"].fields[1].responseName = petsStr \o <<"-", "1">>

(***************************************************************************)
(* C21: the errors of the duplicate names of a generation pass             *)
(***************************************************************************)
\* the events of the last generation pass, when the last handler ended one
PassEnded == events # <<>> /\ events[Len(events)] = endDocs
LastStart == CHOOSE k \in DOMAIN events :
                 events[k] = startDocs /\ \A j \in (k + 1)..Len(events) : events[j] # startDocs
LastPass == SubSeq(events, LastStart, Len(events))
\* the files of a project whose cached document declares the name by a
\* definition of one of the kinds
FilesDeclaring(documents, name, kinds) ==
    {documents[k].key : k \in {j \in DOMAIN documents :
        \E d \in DOMAIN documents[j].value.definitions :
            /\ documents[j].value.definitions[d].name = name
            /\ documents[j].value.definitions[d].kind \in kinds}}
NamesDeclared(documents, kinds) ==
    UNION {{documents[k].value.definitions[d].name :
               d \in {j \in DOMAIN documents[k].value.definitions :
                         documents[k].value.definitions[j].kind \in kinds}} :
           k \in DOMAIN documents}
IsDuplicateError(e) == e.event = "error" /\ "operationName" \in DOMAIN e.error
DuplicateErrorsFor(projectName, name) ==
    {k \in DOMAIN LastPass :
        /\ IsDuplicateError(LastPass[k])
        /\ LastPass[k].error.operationName = name
        /\ LastPass[k].error.projectName = projectName}
OneErrorForEveryDuplicate(kinds) ==
    PassEnded =>
        \A p \in DOMAIN documentMapByProject :
            \A name \in NamesDeclared(documentMapByProject[p].value, kinds) :
                LET files == FilesDeclaring(documentMapByProject[p].value, name, kinds)
                    errors == DuplicateErrorsFor(documentMapByProject[p].key, name)
                IN IF Cardinality(files) > 1
                   THEN /\ Cardinality(errors) = 1
                        /\ \A k \in errors : LastPass[k].error.filePaths = files
                   ELSE errors = {}

\* C21: a generation pass emits one 'error' event, naming the files, for
\* every name -- of an operation or of a fragment -- that more than one file
\* of the same project declares.
C21_OneErrorForEveryDuplicateName ==
    OneErrorForEveryDuplicate({"OperationDefinition", "FragmentDefinition"})

\* what holds of the code: a generation pass emits one 'error' event, naming
\* the files, for every operation name that more than one file of the same
\* project declares, and no such error for any other name.
C21_OneErrorForEveryDuplicateOperationName ==
    OneErrorForEveryDuplicate({"OperationDefinition"})

\* a pass has ended with two files of one project declaring the fragment Toy
C21_Witness ==
    /\ PassEnded
    /\ \E p \in DOMAIN documentMapByProject :
          Cardinality(FilesDeclaring(documentMapByProject[p].value, "Toy",
                                     {"FragmentDefinition"})) > 1

\* a pass has ended with an error for the query Pets of two files of one project
C21_WitnessOperation ==
    /\ PassEnded
    /\ \E p \in DOMAIN documentMapByProject :
          /\ Cardinality(FilesDeclaring(documentMapByProject[p].value, "Pets",
                                        {"OperationDefinition"})) > 1
          /\ DuplicateErrorsFor(documentMapByProject[p].key, "Pets") # {}

(***************************************************************************)
(* C30: the document cache after the events of the watchers                *)
(***************************************************************************)
\* the document the cache holds for a file, if any
IsCached(filePath) ==
    /\ mapHas(documentMapByProject, projectNameOf(filePath))
    /\ mapHas(mapGet(documentMapByProject, projectNameOf(filePath)), filePath)
CachedDocument(filePath) ==
    mapGet(mapGet(documentMapByProject, projectNameOf(filePath)), filePath)
Blank(text) == \A k \in DOMAIN text : text[k] = WhiteSpace
Parses(text) == \A k \in DOMAIN text : text[k] # Malformed
Watching == events # <<>>

\* C30: once the Builder runs, the cache holds for each file the document
\* parsed from its latest contents: none for a file that was removed, none
\* for a file that is empty or holds whitespace only.
C30_CacheHoldsLatestContents ==
    Watching =>
        \A filePath \in Range(WatchPaths) :
            IF ~contents[filePath].exists \/ Blank(contents[filePath].text)
            THEN ~IsCached(filePath)
            ELSE Parses(contents[filePath].text) =>
                    /\ IsCached(filePath)
                    /\ CachedDocument(filePath)
                       = parse(contents[filePath].text, filePath).document

\* what holds of the code: a removed file has no entry, a file whose latest
\* contents parse to a document has that document, and an entry is always
\* a document the file once held.
C30_CacheHoldsLatestDocument ==
    Watching =>
        \A filePath \in Range(WatchPaths) :
            /\ ~contents[filePath].exists => ~IsCached(filePath)
            /\ (/\ contents[filePath].exists
                /\ ~Blank(contents[filePath].text)
                /\ Parses(contents[filePath].text))
               => /\ IsCached(filePath)
                  /\ CachedDocument(filePath)
                     = parse(contents[filePath].text, filePath).document

\* a file that held a document was written over with blank contents
C30_Witness ==
    /\ Watching /\ handled > 0
    /\ \E filePath \in Range(WatchPaths) :
          /\ contents[filePath].exists
          /\ Blank(contents[filePath].text)
          /\ IsCached(filePath)

\* a file was removed after the cache held its document
C30_WitnessUnlinked ==
    /\ Watching /\ handled > 0
    /\ \E filePath \in Range(WatchPaths) :
          /\ ~contents[filePath].exists
          /\ mapHas(documentMapByProject, projectNameOf(filePath))

(***************************************************************************)
(* C29: 'start:docs' and 'end:docs' come in pairs                          *)
(***************************************************************************)
DocsEvents == SelectSeq(events, LAMBDA e : e \in {startDocs, endDocs})
\* every 'start:docs' is followed by one 'end:docs' before the next one:
\* after every handler the two alternate and the last one is an 'end:docs'
DocsEventsInPairs ==
    /\ Len(DocsEvents) % 2 = 0
    /\ \A k \in DOMAIN DocsEvents :
          DocsEvents[k] = (IF k % 2 = 1 THEN startDocs ELSE endDocs)

\* no 'start:docs' is followed by another before an 'end:docs'
DocsEventsAlternate ==
    \A k \in DOMAIN DocsEvents :
        DocsEvents[k] = (IF k % 2 = 1 THEN startDocs ELSE endDocs)

\* C29: every 'start:docs' is followed by exactly one 'end:docs' before the
\* next 'start:docs', after the run and after every watcher event, whatever
\* fails in the pass.  (Taken at its weakest: a pass that is still open is
\* no violation, a second 'start:docs' in it is.)
C29_StartDocsThenEndDocs == DocsEventsAlternate

\* what holds of the code: where the Builder has an 'error' listener, every
\* handler leaves the events of the passes in pairs, each 'start:docs' with
\* its 'end:docs'.
C29_StartDocsThenEndDocsWhereListening == listening => DocsEventsInPairs

\* with a listener, a watcher event was followed by a pass in which a
\* duplicate name or a failure of compile or print was reported
C29_Witness ==
    /\ listening /\ handled > 0 /\ PassEnded
    /\ \E k \in DOMAIN LastPass : LastPass[k].event = "error"

\* without a listener, a pass was left by what emit threw, and the Builder
\* went on
C29_WitnessLeft ==
    /\ ~listening /\ ~exited /\ ~DocsEventsInPairs
====
